---- MODULE Spec2Model ----
(***************************************************************************)
(* PyMonitorLib: the metric pipeline (monitor/lib/metrics.py), the         *)
(* reference InfluxDB backend (monitor/lib/database.py) and the type       *)
(* coercion functions of monitor/lib/config.py.                            *)
(*                                                                         *)
(* Python values are tagged records, one field name per kind so that       *)
(* values of different kinds compare unequal:                              *)
(*   [k |-> "str",   s |-> <<"3", ".", "5">>]    a string, char by char    *)
(*   [k |-> "int",   i |-> 3]                                              *)
(*   [k |-> "float", num |-> 35, exp |-> 1]      35 / 10^1, normalised     *)
(*   [k |-> "bool",  b |-> TRUE]                                           *)
(*   [k |-> "none"]                              None                      *)
(*   [k |-> "list",  l |-> <<...>>]   [k |-> "dict", d |-> [key |-> val]]  *)
(***************************************************************************)
EXTENDS Integers, Sequences, FiniteSets, TLC

\* ------------------------------------------------------------------------
\* Bounds of the model
\* ------------------------------------------------------------------------
\* Longest queue the model lets Enqueue build (the code has no cap).
MaxQueue == 3

\* ------------------------------------------------------------------------
\* Python values
\* ------------------------------------------------------------------------
StrV(s) == [k |-> "str", s |-> s]
IntV(i) == [k |-> "int", i |-> i]
BoolV(b) == [k |-> "bool", b |-> b]
NoneV == [k |-> "none"]
ListV(l) == [k |-> "list", l |-> l]
DictV(d) == [k |-> "dict", d |-> d]

RECURSIVE Pow10(_)
Pow10(n) == IF n = 0 THEN 1 ELSE 10 * Pow10(n - 1)

\* A float num / 10^exp with the trailing zeros of the fraction removed.
RECURSIVE FloatV(_, _)
FloatV(num, exp) ==
    IF exp > 0 /\ num % 10 = 0
    THEN FloatV(num \div 10, exp - 1)
    ELSE [k |-> "float", num |-> num, exp |-> exp]

\* The floats that are no numbers of the form num / 10^exp: float('inf'),
\* float('-inf') and float('nan').
InfV(sign) == [k |-> "float", inf |-> sign]
NanV == [k |-> "float", nan |-> TRUE]
IsFinite(f) == "num" \in DOMAIN f

Digits == <<"0", "1", "2", "3", "4", "5", "6", "7", "8", "9">>

\* The characters str.isspace() is true of, among those a string of the
\* model can hold: blank, tab, line feed, carriage return and form feed.
WhiteSpace == {" ", "\t", "\n", "\r", "\f"}

\* str.strip(): leading and trailing white space removed.
RECURSIVE Strip(_)
Strip(s) ==
    IF s = <<>> THEN s
    ELSE IF Head(s) \in WhiteSpace THEN Strip(Tail(s))
    ELSE IF s[Len(s)] \in WhiteSpace THEN Strip(SubSeq(s, 1, Len(s) - 1))
    ELSE s

\* str.lower(): the capital letters of the alphabet become small ones.
LowerChar(c) ==
    CASE c = "A" -> "a" [] c = "B" -> "b" [] c = "C" -> "c" [] c = "D" -> "d"
      [] c = "E" -> "e" [] c = "F" -> "f" [] c = "G" -> "g" [] c = "H" -> "h"
      [] c = "I" -> "i" [] c = "J" -> "j" [] c = "K" -> "k" [] c = "L" -> "l"
      [] c = "M" -> "m" [] c = "N" -> "n" [] c = "O" -> "o" [] c = "P" -> "p"
      [] c = "Q" -> "q" [] c = "R" -> "r" [] c = "S" -> "s" [] c = "T" -> "t"
      [] c = "U" -> "u" [] c = "V" -> "v" [] c = "W" -> "w" [] c = "X" -> "x"
      [] c = "Y" -> "y" [] c = "Z" -> "z"
      [] OTHER -> c
Lower(s) == [i \in 1..Len(s) |-> LowerChar(s[i])]

Contains(s, c) == \E i \in 1..Len(s) : s[i] = c

\* Value of a string of digits, most significant first.
RECURSIVE DigitsVal(_)
DigitsVal(s) ==
    IF s = <<>> THEN 0
    ELSE 10 * DigitsVal(SubSeq(s, 1, Len(s) - 1))
         + (CHOOSE d \in 1..10 : Digits[d] = s[Len(s)]) - 1

AllDigits(s) == \A i \in 1..Len(s) : \E d \in 1..10 : Digits[d] = s[i]

\* Decimal digits of a natural number.
RECURSIVE NatToStr(_)
NatToStr(n) ==
    IF n < 10 THEN <<Digits[n + 1]>> ELSE NatToStr(n \div 10) \o <<Digits[(n % 10) + 1]>>

\* Sign and unsigned rest of a numeric literal.
SignOf(s) == IF s # <<>> /\ Head(s) = "-" THEN -1 ELSE 1
Unsigned(s) == IF s # <<>> /\ (Head(s) = "-" \/ Head(s) = "+") THEN Tail(s) ELSE s

\* int(str): white space stripped, optional sign, then decimal digits.
\* (Inputs of the model hold no '_' digit separators.)
ParseDigits(sign, t) ==
    IF t # <<>> /\ AllDigits(t)
    THEN [ok |-> TRUE, v |-> IntV(sign * DigitsVal(t))]
    ELSE [ok |-> FALSE, exc |-> "ValueError"]

ParseInt(s) == ParseDigits(SignOf(Strip(s)), Unsigned(Strip(s)))

\* The place of the first character of s that is one of chars, Len(s) + 1
\* when it has none.
FirstOf(s, chars) ==
    IF \A i \in 1..Len(s) : s[i] \notin chars THEN Len(s) + 1
    ELSE CHOOSE i \in 1..Len(s) : s[i] \in chars /\ \A j \in 1..(i - 1) : s[j] \notin chars

\* float(str): white space stripped, optional sign, digits with at most one '.'
\* and at least one digit. (Inputs of the model hold no exponents and no
\* '_' separators; the words for infinity and not-a-number are read by
\* ParseSigned.)
ParseParts(sign, whole, frac) ==
    IF AllDigits(whole) /\ AllDigits(frac) /\ Len(whole) + Len(frac) > 0
    THEN [ok |-> TRUE, v |-> FloatV(sign * DigitsVal(whole \o frac), Len(frac))]
    ELSE [ok |-> FALSE, exc |-> "ValueError"]

ParseUnsigned(sign, t, dot) ==
    ParseParts(sign, SubSeq(t, 1, dot - 1), SubSeq(t, dot + 1, Len(t)))

\* The words float() reads as infinity and as not-a-number, in any case.
ParseSigned(sign, t) ==
    IF Lower(t) \in {<<"i", "n", "f">>, <<"i", "n", "f", "i", "n", "i", "t", "y">>}
    THEN [ok |-> TRUE, v |-> InfV(sign)]
    ELSE IF Lower(t) = <<"n", "a", "n">> THEN [ok |-> TRUE, v |-> NanV]
    ELSE ParseUnsigned(sign, t, FirstOf(t, {"."}))

ParseFloat(s) == ParseSigned(SignOf(Strip(s)), Unsigned(Strip(s)))

\* n as exactly w decimal digits, zero padded on the left.
RECURSIVE PadNat(_, _)
PadNat(n, w) == IF w = 0 THEN <<>> ELSE PadNat(n \div 10, w - 1) \o <<Digits[(n % 10) + 1]>>

\* repr(x) of the finite float x = a / 10^exp, a >= 0. With n the number
\* of digits of a, the decimal point stands n - exp places after the first
\* digit that is not zero; Python writes an exponent when that is <= -4 or
\* > 16, after the digits of a without the zeros at their end (the num of
\* FloatV(a, n)), and positional digits otherwise.
FloatText(a, exp, n) ==
    IF a # 0 /\ (n - exp <= -4 \/ n - exp > 16)
    THEN <<Head(NatToStr(a))>>
         \o (IF FloatV(a, n).num >= 10
             THEN <<".">> \o Tail(NatToStr(FloatV(a, n).num)) ELSE <<>>)
         \o <<"e", IF n - exp - 1 < 0 THEN "-" ELSE "+">>
         \o (IF n - exp - 1 \in -9..9 THEN <<"0">> ELSE <<>>)
         \o NatToStr(IF n - exp - 1 < 0 THEN exp + 1 - n ELSE n - exp - 1)
    ELSE NatToStr(a \div Pow10(exp)) \o <<".">>
         \o (IF exp = 0 THEN <<"0">> ELSE PadNat(a % Pow10(exp), exp))

\* The character c in the repr of a str in quotes of the kind quote: the
\* backslash, the quote and the white space other than the blank are
\* written as escapes.
ReprChar(c, quote) ==
    CASE c = "\\" -> <<"\\", "\\">>
      [] c = quote -> <<"\\", quote>>
      [] c = "\t" -> <<"\\", "t">>
      [] c = "\n" -> <<"\\", "n">>
      [] c = "\r" -> <<"\\", "r">>
      [] c = "\f" -> <<"\\", "x", "0", "c">>
      [] OTHER -> <<c>>

\* The texts of items one after the other, sep between them.
RECURSIVE Join(_, _)
Join(items, sep) ==
    IF items = <<>> THEN <<>>
    ELSE Head(items) \o (IF Len(items) > 1 THEN sep ELSE <<>>) \o Join(Tail(items), sep)

\* The keys of a dict one after the other. (A dict of the model is a
\* function and does not hold the order its keys were inserted in, which
\* is the order Python writes them in: the dicts whose text is taken hold
\* at most one key.)
RECURSIVE KeysOf(_)
KeysOf(keys) ==
    IF keys = {} THEN <<>>
    ELSE <<CHOOSE k \in keys : TRUE>> \o KeysOf(keys \ {CHOOSE k \in keys : TRUE})

\* str(value), as ConvertBoolean applies it. repr(value) is what str
\* writes for the items of a list and of a dict: a str in single quotes,
\* in double quotes when it holds a single and no double quote.
RECURSIVE PyStr(_)
QuoteOf(s) == IF Contains(s, "'") /\ ~Contains(s, "\"") THEN "\"" ELSE "'"
PyRepr(value) ==
    IF value.k = "str"
    THEN <<QuoteOf(value.s)>>
         \o Join([i \in 1..Len(value.s) |-> ReprChar(value.s[i], QuoteOf(value.s))], <<>>)
         \o <<QuoteOf(value.s)>>
    ELSE PyStr(value)
PyStr(value) ==
    CASE value.k = "str" -> value.s
      [] value.k = "int" ->
            IF value.i < 0 THEN <<"-">> \o NatToStr(-value.i) ELSE NatToStr(value.i)
      [] value.k = "bool" ->
            IF value.b THEN <<"T", "r", "u", "e">> ELSE <<"F", "a", "l", "s", "e">>
      [] value.k = "none" -> <<"N", "o", "n", "e">>
      [] value.k = "float" /\ IsFinite(value) ->
            IF value.num < 0
            THEN <<"-">> \o FloatText(-value.num, value.exp, Len(NatToStr(-value.num)))
            ELSE FloatText(value.num, value.exp, Len(NatToStr(value.num)))
      [] value.k = "float" /\ "inf" \in DOMAIN value ->
            (IF value.inf < 0 THEN <<"-">> ELSE <<>>) \o <<"i", "n", "f">>
      [] value.k = "float" /\ "nan" \in DOMAIN value -> <<"n", "a", "n">>
      [] value.k = "list" ->
            <<"[">>
            \o Join([i \in 1..Len(value.l) |-> PyRepr(value.l[i])], <<",", " ">>)
            \o <<"]">>
      [] value.k = "dict" ->
            <<"{">>
            \o Join([i \in 1..Len(KeysOf(DOMAIN value.d)) |->
                        PyRepr(StrV(KeysOf(DOMAIN value.d)[i])) \o <<":", " ">>
                        \o PyRepr(value.d[KeysOf(DOMAIN value.d)[i]])],
                    <<",", " ">>)
            \o <<"}">>

\* int(x) for a float x: truncation toward zero.
TruncFloat(f) ==
    LET p == Pow10(f.exp) IN
    IF f.num < 0 THEN IntV(-((-f.num) \div p)) ELSE IntV(f.num \div p)

\* int(x) for any float x: infinity and not-a-number have no integer.
PyIntOfFloat(f) ==
    IF IsFinite(f) THEN [ok |-> TRUE, v |-> TruncFloat(f)]
    ELSE IF "inf" \in DOMAIN f THEN [ok |-> FALSE, exc |-> "OverflowError"]
    ELSE [ok |-> FALSE, exc |-> "ValueError"]

\* float(value)
PyFloat(value) ==
    CASE value.k = "str" -> ParseFloat(value.s)
      [] value.k = "int" -> [ok |-> TRUE, v |-> FloatV(value.i, 0)]
      [] value.k = "float" -> [ok |-> TRUE, v |-> value]
      [] value.k = "bool" -> [ok |-> TRUE, v |-> FloatV(IF value.b THEN 1 ELSE 0, 0)]
      [] OTHER -> [ok |-> FALSE, exc |-> "TypeError"]

\* int(value)
PyInt(value) ==
    CASE value.k = "str" -> ParseInt(value.s)
      [] value.k = "int" -> [ok |-> TRUE, v |-> value]
      [] value.k = "float" -> PyIntOfFloat(value)
      [] value.k = "bool" -> [ok |-> TRUE, v |-> IntV(IF value.b THEN 1 ELSE 0)]
      [] OTHER -> [ok |-> FALSE, exc |-> "TypeError"]

\* ------------------------------------------------------------------------
\* Type coercion (monitor/lib/config.py)
\* ------------------------------------------------------------------------
ARRAY_TYPE == "array"
BOOL_TYPE == "bool"
FLOAT_TYPE == "float"
HASH_TYPE == "hash"
INT_TYPE == "int"
STRING_TYPE == "string"
\* hint=None
NoHint == "None"

\* Outcome of a call: a returned value, or the class of the exception raised.
Return(v) == [exc |-> "none", v |-> v]
Raise(e) == [exc |-> e]

BooleanOf(s) ==
    IF s \in {<<"y", "e", "s">>, <<"1">>, <<"t", "r", "u", "e">>} THEN BoolV(TRUE)
    ELSE IF s \in {<<"n", "o">>, <<"0">>, <<"f", "a", "l", "s", "e">>} THEN BoolV(FALSE)
    ELSE NoneV

ConvertBoolean(value) == BooleanOf(Lower(PyStr(value)))

\* str.split(): the maximal runs of characters that are no white space, in
\* order.
RECURSIVE Split(_)
SplitAt(t, cut) == <<SubSeq(t, 1, cut - 1)>> \o Split(SubSeq(t, cut + 1, Len(t)))
SplitStripped(t) ==
    IF Strip(t) = <<>> THEN <<>> ELSE SplitAt(Strip(t), FirstOf(Strip(t), WhiteSpace))
Split(s) == SplitStripped(Strip(s))

\* str.split(c): the pieces between the occurrences of c, empty pieces kept.
RECURSIVE SplitOn(_, _)
SplitOnAt(s, c, cut) ==
    IF cut > Len(s) THEN <<s>>
    ELSE <<SubSeq(s, 1, cut - 1)>> \o SplitOn(SubSeq(s, cut + 1, Len(s)), c)
SplitOn(s, c) == SplitOnAt(s, c, FirstOf(s, {c}))

EmptyDict == [x \in {} |-> NoneV]

\* The loop of ConvertHashType over the options still to read; kv is
\* option.split('=') of the first of them.
RECURSIVE HashLoop(_, _)
\* (A loop body that keeps everything after the first '=' as the value;
\* the properties of ConvertHashType tell it from the body below.)
HashStepFirstEquals(options, collection, kv) ==
    IF Len(kv) < 2 THEN Raise("ConversionFailure")
    ELSE HashLoop(Tail(options),
                  [x \in DOMAIN collection \cup {kv[1]} |->
                      IF x = kv[1] THEN StrV(Strip(kv[2])) ELSE collection[x]])
HashStep(options, collection, kv) ==
    IF Len(kv) # 2 THEN Raise("ConversionFailure")
    ELSE HashLoop(Tail(options),
                  [x \in DOMAIN collection \cup {kv[1]} |->
                      IF x = kv[1] THEN StrV(Strip(kv[2])) ELSE collection[x]])
HashLoop(options, collection) ==
    IF options = <<>> THEN Return(DictV(collection))
    ELSE HashStep(options, collection, SplitOn(Head(options), "="))

ConvertHashType(value) ==
    IF value.k # "str" THEN Raise("AttributeError")
    ELSE HashLoop(Split(value.s), EmptyDict)

\* The list of the strings pieces.
StrList(pieces) == ListV([i \in 1..Len(pieces) |-> StrV(pieces[i])])

\* The value int() or float() answered, or the exception it raised.
Answer(p) == IF p.ok THEN Return(p.v) ELSE Raise(p.exc)

\* int(float(value)), f being what float(value) answered.
IntOfFloat(f) == IF f.ok THEN Answer(PyIntOfFloat(f.v)) ELSE Raise(f.exc)

\* Lines 105-111, b being ConvertBoolean(value) and v what float(value)
\* answered.
Guess(value, b, v) ==
    IF b # NoneV THEN Return(b)
    ELSE IF ~v.ok THEN Raise(v.exc)
    ELSE IF value.k = "str" /\ Contains(value.s, ".") THEN Return(v.v)
    ELSE Answer(PyIntOfFloat(v.v))

\* The body of the try block of ConvertValue, on the stripped value.
ConvertTry(value, hint) ==
    IF hint # NoHint
    THEN CASE hint = ARRAY_TYPE ->
                IF value.k # "str" THEN Raise("AttributeError")
                ELSE Return(StrList(Split(value.s)))
           [] hint = HASH_TYPE -> ConvertHashType(value)
           [] hint = INT_TYPE ->
                IF value.k = "str" /\ Contains(value.s, ".")
                THEN IntOfFloat(PyFloat(value))
                ELSE Answer(PyInt(value))
           [] hint = BOOL_TYPE -> Return(ConvertBoolean(value))
           [] hint = FLOAT_TYPE -> Answer(PyFloat(value))
           [] hint = STRING_TYPE -> Return(value)
           [] OTHER -> Raise("ConversionFailure")
    ELSE Guess(value, ConvertBoolean(value), PyFloat(value))

\* Lines 116-118: the boolean b that ConvertBoolean(value) answered, or the
\* value itself.
BooleanOrSelf(b, value) == IF b = NoneV THEN Return(value) ELSE Return(b)

\* The except clause of lines 112-118 after the try block ended as r.
ConvertExcept(r, value, hint) ==
    IF r.exc \in {"TypeError", "ValueError"}
    THEN IF hint # NoHint THEN Raise("ConversionFailure")
         ELSE BooleanOrSelf(ConvertBoolean(value), value)
    ELSE r

\* Lines 87-118 on the stripped value.
ConvertStripped(value, hint) == ConvertExcept(ConvertTry(value, hint), value, hint)

ConvertValue(value, hint) ==
    ConvertStripped(IF value.k = "str" THEN StrV(Strip(value.s)) ELSE value, hint)

DefaultValue(hint) ==
    CASE hint = ARRAY_TYPE -> Return(ListV(<<>>))
      [] hint = HASH_TYPE -> Return(DictV(EmptyDict))
      [] hint = INT_TYPE -> Return(IntV(0))
      [] hint = BOOL_TYPE -> Return(BoolV(FALSE))
      [] hint = FLOAT_TYPE -> Return(FloatV(0, 0))
      [] hint = STRING_TYPE -> Return(StrV(<<>>))
      [] OTHER -> Raise("ConversionFailure")

\* ------------------------------------------------------------------------
\* The loaded schema (monitor/lib/config.py, class Config)
\* ------------------------------------------------------------------------
INFLUXDB_SECTION == "influxdb"

\* DATABASE_FIELDS[INFLUXDB_SECTION]: the options Load copies when present.
DATABASE_FIELDS == {"database", "port", "server", "ssl", "verify", "org", "token", "bucket"}

\* self.config['measurements'] of the loaded schemas of the model: measurement
\* name -> field name -> type hint.
Catalog ==
    [m \in {"cpu"} |->
        [f \in {"load", "temp", "up", "host"} |->
            CASE f = "load" -> INT_TYPE
              [] f = "temp" -> FLOAT_TYPE
              [] f = "up" -> BOOL_TYPE
              [] OTHER -> STRING_TYPE]]

\* A loaded Config: the backend kind, the backend section as Load built it
\* (the set of options present) and the measurement catalog.
LoadedConfig(keys) ==
    [database |-> INFLUXDB_SECTION, dbconfig |-> keys, measurements |-> Catalog]

FullKeys == {"server", "token", "org", "bucket"}

\* The schemas of the model: a complete backend section, one without the
\* token that Initialize reads, and one without the bucket that Write reads.
Schemas ==
    {LoadedConfig(FullKeys), LoadedConfig(FullKeys \ {"token"}),
     LoadedConfig(FullKeys \ {"bucket"})}

\* Config.GetDatabase on a loaded Config.
GetDatabase(config) == Return(<<config.database, config.dbconfig>>)

\* GetField without the unknown-field check: an unknown field gets the
\* string hint.
GetFieldLenient(config, measurement, field) ==
    IF measurement \notin DOMAIN config.measurements
    THEN Raise("KeyError")
    ELSE IF field \notin DOMAIN config.measurements[measurement]
    THEN Return(STRING_TYPE)
    ELSE Return(config.measurements[measurement][field])

\* Config.GetField on a loaded Config (names are never None in the model).
GetField(config, measurement, field) ==
    IF measurement \notin DOMAIN config.measurements
    THEN Raise("KeyError")
    ELSE IF field \notin DOMAIN config.measurements[measurement]
    THEN Raise("KeyError")
    ELSE Return(config.measurements[measurement][field])

\* ------------------------------------------------------------------------
\* Metric (monitor/lib/metrics.py)
\* ------------------------------------------------------------------------
\* A Metric: its measurement and its fields in insertion order, each
\* [name, original, clean]. Tags, entity and timestamp play no part in
\* validation or batching and are left out.
Metric(measurement) == [k |-> "metric", measurement |-> measurement, fields |-> <<>>]

\* Metric.AddField: a new field is appended, an existing one is replaced.
AddField(metric, field, value) ==
    LET entry == [name |-> field, original |-> value, clean |-> NoneV]
        at == {i \in 1..Len(metric.fields) : metric.fields[i].name = field}
    IN [metric EXCEPT !.fields =
          IF at = {} THEN Append(@, entry)
          ELSE [i \in 1..Len(@) |-> IF i \in at THEN entry ELSE @[i]]]

\* Something that is not a Metric instance.
NotAMetric == [k |-> "other"]

\* ------------------------------------------------------------------------
\* MetricPipeline.Enqueue (monitor/lib/metrics.py)
\* ------------------------------------------------------------------------
\* The clean value Enqueue stores for one field whose hint was found: the
\* converted value r, or the default of the hint on a ConversionFailure. Any
\* other exception leaves Enqueue. (ConvertValue raises no KeyError, so the
\* handler of lines 124-128 is never entered.)
OrDefault(r, hint) == IF r.exc = "ConversionFailure" THEN DefaultValue(hint) ELSE r

CleanField(value, hint) == OrDefault(ConvertValue(value, hint), hint)

\* The loop over metric.fields of lines 119-133, from field i on: the fields
\* with their clean values, and the exception that left the loop, if one
\* did. The loop writes into the Metric object it is given: the fields it
\* passed before an exception keep the clean values it stored.
RECURSIVE CleanFields(_, _, _)

\* Lines 122-133 for field i, clean being what CleanField answered.
StoreClean(config, metric, i, clean) ==
    IF clean.exc # "none" THEN [exc |-> clean.exc, v |-> metric.fields]
    ELSE CleanFields(config, [metric EXCEPT !.fields[i].clean = clean.v], i + 1)

\* The lookup inside the try block and without the break: a field whose
\* lookup fails is left as it is.
LookedUpKeepingUnknown(config, metric, i, hint) ==
    IF hint.exc # "none" THEN CleanFields(config, metric, i + 1)
    ELSE StoreClean(config, metric, i, CleanField(metric.fields[i].original, hint.v))

\* Lines 120-133 for field i, hint being what GetField answered: its
\* exception is raised outside the try block and leaves Enqueue.
LookedUp(config, metric, i, hint) ==
    IF hint.exc # "none" THEN [exc |-> hint.exc, v |-> metric.fields]
    ELSE StoreClean(config, metric, i, CleanField(metric.fields[i].original, hint.v))

CleanFields(config, metric, i) ==
    IF i > Len(metric.fields) THEN Return(metric.fields)
    ELSE LookedUp(config, metric, i,
                  GetField(config, metric.measurement, metric.fields[i].name))

\* The loop over metrics of lines 113-135: the queue when Enqueue ends, and
\* the exception that ended it, if one did.
RECURSIVE EnqueueLoop(_, _, _)

\* Lines 118-135 for the first of metrics, fields being what the loop over
\* its fields answered.
Cleaned(config, queue0, metrics, fields) ==
    IF fields.exc # "none" THEN [queue |-> queue0, exc |-> fields.exc]
    ELSE EnqueueLoop(config,
                     Append(queue0, [Head(metrics) EXCEPT !.fields = fields.v]),
                     Tail(metrics))

EnqueueLoop(config, queue0, metrics) ==
    IF metrics = <<>> THEN [queue |-> queue0, exc |-> "none"]
    ELSE IF Head(metrics).k # "metric" THEN EnqueueLoop(config, queue0, Tail(metrics))
    ELSE Cleaned(config, queue0, metrics, CleanFields(config, Head(metrics), 1))

\* Enqueue(metrics) on a pipeline: a no-op once shut down; one metric is
\* wrapped into a list (lines 109-112).
EnqueueCall(config, queue0, isShutdown, metrics) ==
    IF isShutdown THEN [queue |-> queue0, exc |-> "none"]
    ELSE EnqueueLoop(config, queue0, IF metrics.k = "list" THEN metrics.l ELSE <<metrics>>)

\* The queue holds the Metric objects themselves (line 135), and the
\* producer that made an object can still reach it. ident tells the
\* objects of a queue apart: ident[i] = ident[j] when queue[i] and queue[j]
\* are one object, and ident[i] is the first place of the queue that holds
\* the object of place i. A new object that is appended comes to a place
\* that is its first.

\* ident after queue.pop(0) left the last n places of the queue (lines
\* 221-223).
LastOf(ident0, n) ==
    [i \in 1..n |->
        CHOOSE j \in 1..i :
            /\ ident0[Len(ident0) - n + j] = ident0[Len(ident0) - n + i]
            /\ \A h \in 1..(j - 1) :
                  ident0[Len(ident0) - n + h] # ident0[Len(ident0) - n + i]]

\* Every place of the queue that holds the object of place i gets fields.
Written(queue0, ident0, i, fields) ==
    [j \in 1..Len(queue0) |->
        IF ident0[j] = ident0[i] THEN [queue0[j] EXCEPT !.fields = fields] ELSE queue0[j]]

\* Enqueue(metric), metric being the object at place i of the queue: the
\* loop over its fields writes into the queued object, and line 135
\* appends the object once more.
EnqueueQueued(config, queue0, ident0, isShutdown, i, fields) ==
    IF isShutdown THEN [queue |-> queue0, ident |-> ident0, exc |-> "none"]
    ELSE IF fields.exc # "none"
    THEN [queue |-> Written(queue0, ident0, i, fields.v), ident |-> ident0, exc |-> fields.exc]
    ELSE [queue |-> Append(Written(queue0, ident0, i, fields.v),
                           [queue0[i] EXCEPT !.fields = fields.v]),
          ident |-> Append(ident0, ident0[i]), exc |-> "none"]

\* ------------------------------------------------------------------------
\* InfluxDatabase (monitor/lib/database.py)
\* ------------------------------------------------------------------------
\* metrics.py imports influxdb_client itself, so a pipeline only runs where
\* the import of database.py succeeded.
INFLUXDB_SUPPORTED == TRUE

\* What the network and the server do during one batch of a pipeline Flush:
\* the outcome of InfluxDBClient(...) in the Initialize that Write starts
\* (init1) and in the one that Flush starts (init2), of writer.write and of
\* writer.flush. A call that is not reached has the outcome "ok".
BackendEnvs ==
    {e \in [init1 : {"ok", "fail"}, write : {"ok", "raise"},
            init2 : {"ok", "fail"}, flush : {"ok", "raise"}] :
        /\ e.init1 = "ok" => e.init2 = "ok"
        /\ e.init1 = "fail" => e.write = "ok"
        /\ e.write # "ok" => e.flush = "ok"
        /\ e.init2 = "fail" => e.flush = "ok"}

\* The exception of the client library that writer.write or writer.flush
\* ended with; its class is one of RaisedClasses.
ClientError == "ClientError"

\* The classes of exception the client library raises on errors of the
\* network or the server, one for each except clause of lines 184-212
\* (requests' Timeout, ConnectionError, HTTPError, TooManyRedirects,
\* RequestException, and any other Exception).
TransientErrors ==
    {"Timeout", "ConnectionError", "HTTPError", "TooManyRedirects",
     "RequestException", "Exception"}

NoDatabase == [k |-> "none"]

\* InfluxDatabase(config): CheckConfig checks nothing.
NewInfluxDatabase(config) ==
    IF ~INFLUXDB_SUPPORTED THEN [exc |-> "RuntimeError", db |-> NoDatabase]
    ELSE [exc |-> "none",
          db |-> [k |-> "influx", config |-> config, client |-> FALSE, writer |-> FALSE]]

\* Initialize: [db, exc, ret]. The options are read while the arguments of
\* InfluxDBClient are built; 'bucket' is not among them.
Initialize(db, init) ==
    IF ~INFLUXDB_SUPPORTED THEN [db |-> db, exc |-> "RuntimeError", ret |-> FALSE]
    ELSE IF ~({"server", "token", "org"} \subseteq db.config)
    THEN [db |-> db, exc |-> "RuntimeError", ret |-> FALSE]
    ELSE IF init = "fail"
    THEN [db |-> [db EXCEPT !.client = FALSE], exc |-> "none", ret |-> FALSE]
    ELSE [db |-> [db EXCEPT !.client = TRUE, !.writer = TRUE], exc |-> "none", ret |-> TRUE]

\* InfluxDatabase.Write(metrics): [db, exc, ret, wrote]; wrote says that
\* writer.write delivered the points.
Write(db, env) ==
    LET i == IF db.writer THEN [db |-> db, exc |-> "none", ret |-> TRUE]
             ELSE Initialize(db, env.init1)
    IN IF ~INFLUXDB_SUPPORTED
       THEN [db |-> db, exc |-> "RuntimeError", ret |-> FALSE, wrote |-> FALSE]
       ELSE IF i.exc # "none" THEN [db |-> i.db, exc |-> i.exc, ret |-> FALSE, wrote |-> FALSE]
       ELSE IF ~i.ret THEN [db |-> i.db, exc |-> "none", ret |-> FALSE, wrote |-> FALSE]
       ELSE IF "bucket" \notin db.config
       THEN [db |-> i.db, exc |-> "KeyError", ret |-> FALSE, wrote |-> FALSE]
       ELSE IF env.write # "ok"
       THEN [db |-> i.db, exc |-> ClientError, ret |-> FALSE, wrote |-> FALSE]
       ELSE [db |-> i.db, exc |-> "none", ret |-> TRUE, wrote |-> TRUE]

\* InfluxDatabase.Flush(): [db, exc, flushed]; flushed says that
\* writer.flush ran to its end.
DbFlush(db, env) ==
    LET i == IF db.writer THEN [db |-> db, exc |-> "none", ret |-> TRUE]
             ELSE Initialize(db, env.init2)
    IN IF ~INFLUXDB_SUPPORTED THEN [db |-> db, exc |-> "RuntimeError", flushed |-> FALSE]
       ELSE IF i.exc # "none" THEN [db |-> i.db, exc |-> i.exc, flushed |-> FALSE]
       ELSE IF ~i.ret THEN [db |-> i.db, exc |-> "none", flushed |-> FALSE]
       ELSE IF env.flush # "ok" THEN [db |-> i.db, exc |-> ClientError, flushed |-> FALSE]
       ELSE [db |-> i.db, exc |-> "none", flushed |-> TRUE]

\* InfluxDatabase.Close(): client.close() with its errors swallowed.
Close(db) ==
    IF ~INFLUXDB_SUPPORTED THEN [db |-> db, exc |-> "RuntimeError"]
    ELSE [db |-> db, exc |-> "none"]

\* ------------------------------------------------------------------------
\* MetricPipeline.Flush (monitor/lib/metrics.py)
\* ------------------------------------------------------------------------
Min(a, b) == IF a < b THEN a ELSE b

\* The Point built from a metric: measurement and clean field values.
PointOf(metric) ==
    [measurement |-> metric.measurement,
     fields |-> [i \in 1..Len(metric.fields) |->
                    [name |-> metric.fields[i].name, value |-> metric.fields[i].clean]]]

\* (The points of the first count metrics, one for each, with fields or
\* without; the number Flush answers tells it from PointsOf.)
PointsOfEvery(queue0, count) ==
    [i \in 1..Min(count, Len(queue0)) |-> PointOf(queue0[i])]

\* The points of the first count metrics, those without fields skipped
\* (lines 155-168).
RECURSIVE PointsOf(_, _)
PointsOf(queue0, count) ==
    IF count <= 0 \/ queue0 = <<>> THEN <<>>
    ELSE (IF Len(Head(queue0).fields) = 0 THEN <<>> ELSE <<PointOf(Head(queue0))>>)
         \o PointsOf(Tail(queue0), count - 1)

\* Line 174: the handle InfluxDatabase(config) answered is stored; built
\* says that a handle was constructed.
Constructed(n) == [exc |-> n.exc, db |-> n.db, built |-> n.exc = "none"]

\* (A Flush that constructs a handle in every iteration, held or not; the
\* constructions told in the record of the call tell it from
\* EnsureDatabase.)
EnsureDatabaseFresh(config, db) ==
    Constructed(NewInfluxDatabase(GetDatabase(config).v[2]))

\* Lines 171-176: the backend handle, built on first use.
EnsureDatabase(config, db) ==
    IF db # NoDatabase THEN [exc |-> "none", db |-> db, built |-> FALSE]
    ELSE LET got == GetDatabase(config) IN
         IF got.v[1] = INFLUXDB_SECTION THEN Constructed(NewInfluxDatabase(got.v[2]))
         ELSE [exc |-> "RuntimeError", db |-> db, built |-> FALSE]

\* The except clauses with HTTPError raised again like RuntimeError.
FlushHandlerHttpFatal(exc) == IF exc \in {"RuntimeError", "HTTPError"} THEN "raise" ELSE "return"

\* The except clauses of lines 180-212: a RuntimeError is raised again,
\* every other exception makes Flush return (False, sent).
FlushHandler(exc) == IF exc = "RuntimeError" THEN "raise" ELSE "return"

\* What went wrong in the try block of one iteration, for the record of the
\* call: nothing, an error of the network or the server, or the class of any
\* other exception.
FailureClass(exc) == IF exc = ClientError THEN "transient" ELSE exc

\* Lines 178-179 on the handle d.db that EnsureDatabase answered, w being
\* the outcome of Write on it and f that of the backend's Flush after it:
\* the exception the try block of lines 170-179 ends with, the handle, and
\* the record of the iteration (the points of the first count metrics,
\* whether a handle was constructed, whether Write was called, whether
\* writer.write and writer.flush went through, and what failed).
TryBlock(points, count, d, w, f) ==
    LET exc == IF d.exc # "none" THEN d.exc
               ELSE IF w.exc # "none" THEN w.exc
               ELSE f.exc
    IN [exc |-> exc,
        db |-> IF d.exc # "none" THEN d.db
               ELSE IF w.exc # "none" THEN w.db
               ELSE f.db,
        entry |-> [points |-> points,
                   count |-> count,
                   built |-> d.built,
                   called |-> d.exc = "none",
                   wrote |-> d.exc = "none" /\ w.wrote,
                   flushed |-> d.exc = "none" /\ w.exc = "none" /\ f.flushed,
                   failure |-> FailureClass(exc)]]

WriteThenFlush(points, count, d, w, env) ==
    TryBlock(points, count, d, w, DbFlush(w.db, env))

\* One iteration of the while loop of lines 149-223 up to the end of the
\* try block, under the backend behaviour env.
FlushBatch(config, batchSize0, queue0, db, env) ==
    WriteThenFlush(PointsOf(queue0, Min(Len(queue0), batchSize0)),
                   Min(Len(queue0), batchSize0),
                   EnsureDatabase(config, db),
                   Write(EnsureDatabase(config, db).db, env),
                   env)

\* The queue cleared instead of popped count times.
PopAll(queue0, count) == <<>>

\* (The metrics popped off the tail of the queue; the order of the
\* queue tells it from Pop.)
PopTail(queue0, count) ==
    IF count > 0 THEN SubSeq(queue0, 1, Len(queue0) - count) ELSE queue0

\* Lines 221-223: the first count metrics popped off the queue.
Pop(queue0, count) ==
    IF count > 0 THEN SubSeq(queue0, count + 1, Len(queue0)) ELSE queue0

\* The classes the exception exc of the try block can have.
RaisedClasses(exc) == IF exc = ClientError THEN TransientErrors ELSE {exc}

\* (A Flush that pops the batch of the iteration that failed; the
\* properties of the retry tell it from FlushStopped.)
FlushStoppedDropping(b, cls, queue0, sent, log) ==
    IF FlushHandler(cls) = "raise"
    THEN [queue |-> queue0, db |-> b.db, exc |-> cls, ret |-> <<>>,
          log |-> Append(log, b.entry)]
    ELSE [queue |-> Pop(queue0, b.entry.count), db |-> b.db, exc |-> "none",
          ret |-> <<FALSE, sent>>, log |-> Append(log, b.entry)]

\* The outcome of a Flush whose iteration b ended with an exception of
\* class cls (lines 180-212): raised again, or answered with (False, sent).
FlushStopped(b, cls, queue0, sent, log) ==
    IF FlushHandler(cls) = "raise"
    THEN [queue |-> queue0, db |-> b.db, exc |-> cls, ret |-> <<>>,
          log |-> Append(log, b.entry)]
    ELSE [queue |-> queue0, db |-> b.db, exc |-> "none", ret |-> <<FALSE, sent>>,
          log |-> Append(log, b.entry)]

\* The while loop of Flush: every way it can end, the backend behaving in
\* any way of BackendEnvs in each iteration.
RECURSIVE FlushRuns(_, _, _, _, _, _)
RECURSIVE FlushAfter(_, _, _, _, _, _)
FlushRuns(config, batchSize0, queue0, db, sent, log) ==
    IF Len(queue0) = 0
    THEN {[queue |-> queue0, db |-> db, exc |-> "none", ret |-> <<TRUE, sent>>,
           log |-> log]}
    ELSE UNION {FlushAfter(config, batchSize0, queue0, sent, log,
                           FlushBatch(config, batchSize0, queue0, db, env))
                : env \in BackendEnvs}

\* The rest of the loop after the try block of one iteration ended as b:
\* lines 217-223 and the next iterations, or the exception handlers.
FlushAfter(config, batchSize0, queue0, sent, log, b) ==
    IF b.exc # "none"
    THEN {FlushStopped(b, cls, queue0, sent, log) : cls \in RaisedClasses(b.exc)}
    ELSE FlushRuns(config, batchSize0, Pop(queue0, b.entry.count), b.db,
                   sent + Len(b.entry.points), Append(log, b.entry))

\* Flush() without the shutdown check of lines 145-146.
FlushCallUnguarded(config, batchSize0, queue0, db, isShutdown) ==
    FlushRuns(config, batchSize0, queue0, db, 0, <<>>)

\* Flush(): (False, 0) once shut down.
FlushCall(config, batchSize0, queue0, db, isShutdown) ==
    IF isShutdown
    THEN {[queue |-> queue0, db |-> db, exc |-> "none", ret |-> <<FALSE, 0>>,
           log |-> <<>>]}
    ELSE FlushRuns(config, batchSize0, queue0, db, 0, <<>>)

\* ------------------------------------------------------------------------
\* MetricPipeline.Reload and Shutdown
\* ------------------------------------------------------------------------
\* (The handle closed but left in place; what the pipeline holds after
\* Reload and Shutdown tells it from CloseAndClear.)
CloseAndKeep(db) ==
    LET c == IF db # NoDatabase THEN Close(db) ELSE [db |-> db, exc |-> "none"] IN
    [db |-> db, exc |-> c.exc]

\* Lines 251-253 and 269-271 after a Flush that returned with handle db:
\* the handle is closed and cleared; exc is what Close raised.
CloseAndClear(db) ==
    LET c == IF db # NoDatabase THEN Close(db) ELSE [db |-> db, exc |-> "none"] IN
    IF c.exc # "none" THEN [db |-> db, exc |-> c.exc]
    ELSE [db |-> NoDatabase, exc |-> "none"]

\* Reload(config) that swaps the schema only after a Flush that returned
\* success.
ReloadAfterSuccessOnly(r, oldConfig, newConfig) ==
    LET c == CloseAndClear(r.db) IN
    IF r.exc # "none" THEN [db |-> r.db, config |-> oldConfig, exc |-> "none"]
    ELSE IF c.exc # "none" \/ ~r.ret[1] THEN [db |-> c.db, config |-> oldConfig, exc |-> "none"]
    ELSE [db |-> c.db, config |-> newConfig, exc |-> "none"]

\* Reload(config) around the Flush run r: the try block is left at the
\* first exception, which the except clause swallows.
ReloadAfter(r, oldConfig, newConfig) ==
    LET c == CloseAndClear(r.db) IN
    IF r.exc # "none" THEN [db |-> r.db, config |-> oldConfig, exc |-> "none"]
    ELSE IF c.exc # "none" THEN [db |-> c.db, config |-> oldConfig, exc |-> "none"]
    ELSE [db |-> c.db, config |-> newConfig, exc |-> "none"]

\* Shutdown(crash) whose except clause lets a RuntimeError through.
ShutdownAfterRaising(r) ==
    LET c == CloseAndClear(r.db) IN
    IF r.exc = "RuntimeError" THEN [db |-> r.db, shutdown |-> FALSE, exc |-> r.exc]
    ELSE IF r.exc # "none" THEN [db |-> r.db, shutdown |-> TRUE, exc |-> "none"]
    ELSE [db |-> c.db, shutdown |-> TRUE, exc |-> "none"]

\* Shutdown(crash) around the Flush run r; the flag is set after the try.
ShutdownAfter(r) ==
    LET c == CloseAndClear(r.db) IN
    IF r.exc # "none" THEN [db |-> r.db, shutdown |-> TRUE, exc |-> "none"]
    ELSE [db |-> c.db, shutdown |-> TRUE, exc |-> "none"]

\* ------------------------------------------------------------------------
\* Config (monitor/lib/config.py): the object and the file at its path
\* ------------------------------------------------------------------------
\* The str that a string literal of the source denotes: its characters.
Text(literal) ==
    CASE literal = "global" -> <<"g", "l", "o", "b", "a", "l">>
      [] literal = "database" -> <<"d", "a", "t", "a", "b", "a", "s", "e">>
      [] literal = "devices" -> <<"d", "e", "v", "i", "c", "e", "s">>
      [] literal = "influxdb" -> <<"i", "n", "f", "l", "u", "x", "d", "b">>
      [] literal = "measurements" -> <<"m", "e", "a", "s", "u", "r", "e", "m", "e", "n", "t", "s">>
      [] literal = "tags" -> <<"t", "a", "g", "s">>
      [] literal = "device" -> <<"d", "e", "v", "i", "c", "e">>
      [] literal = "option" -> <<"o", "p", "t", "i", "o", "n">>
      [] literal = "port" -> <<"p", "o", "r", "t">>
      [] literal = "server" -> <<"s", "e", "r", "v", "e", "r">>
      [] literal = "ssl" -> <<"s", "s", "l">>
      [] literal = "verify" -> <<"v", "e", "r", "i", "f", "y">>
      [] literal = "org" -> <<"o", "r", "g">>
      [] literal = "token" -> <<"t", "o", "k", "e", "n">>
      [] literal = "bucket" -> <<"b", "u", "c", "k", "e", "t">>
      [] literal = "bool" -> <<"b", "o", "o", "l">>
      [] literal = "float" -> <<"f", "l", "o", "a", "t">>
      [] literal = "int" -> <<"i", "n", "t">>
      [] literal = "string" -> <<"s", "t", "r", "i", "n", "g">>

\* self.root of the Config object of the model.
ROOT == Text("devices")

GLOBAL_SECTION == Text("global")
SUPPORTED_DATABASES == {Text("influxdb")}

\* DATABASE_FIELDS[INFLUXDB_SECTION] in the order Load reads it: option and
\* type hint.
DatabaseFieldTable ==
    <<<<Text("database"), STRING_TYPE>>, <<Text("port"), INT_TYPE>>,
      <<Text("server"), STRING_TYPE>>, <<Text("ssl"), BOOL_TYPE>>,
      <<Text("verify"), BOOL_TYPE>>, <<Text("org"), STRING_TYPE>>,
      <<Text("token"), STRING_TYPE>>, <<Text("bucket"), STRING_TYPE>>>>

\* ENTRY_FIELDS: option, type hint, required.
ENTRY_FIELDS ==
    <<<<Text("measurements"), ARRAY_TYPE, TRUE>>, <<Text("tags"), HASH_TYPE, FALSE>>>>

\* The type names ParseOption accepts.
OptionTypes == {Text(BOOL_TYPE), Text(FLOAT_TYPE), Text(INT_TYPE), Text(STRING_TYPE)}

\* Config.__init__: nothing loaded yet. self.path is the path of the file
\* of the model (never None) and self.root is ROOT. A dict is a function
\* from its keys, the keys being the characters of a str.
NewConfig == [config |-> EmptyDict, database |-> NoneV]

\* No file at self.path. A file that exists is the sequence of its
\* sections, each a name and the sequence of its options, <<key, value>>,
\* as they are written: one line 'key = value' each. (The files of the
\* model hold no DEFAULT section, no '%', no comment and no line that is no
\* section header or option; a key is written at the start of its line, is
\* not empty and holds no '=' and no ':'; a value holds no line break
\* inside.)
NoFile == [exists |-> FALSE, sections |-> <<>>]

\* dict[k] = v
Put(d, k, v) == (k :> v) @@ d

\* ---- configparser.ConfigParser ----
Repeats(names) == \E i, j \in 1..Len(names) : i < j /\ names[i] = names[j]

\* The option names of a section as the parser keeps them: the white
\* space around the name removed, then optionxform (lower case).
Keys(section) == [j \in 1..Len(section.options) |-> Lower(Strip(section.options[j][1]))]

\* parser.read(path) of a file that exists. The parser is strict and reads
\* the lines in order: it raises at the first header that names a section
\* the file has had before, or option that its section has had before,
\* whichever comes first; the header of a section comes before its options.
\* It keeps every value with the white space around it removed.
ParserRead(sections) ==
    IF \E i \in 1..Len(sections) :
          /\ \E h \in 1..(i - 1) : sections[h].name = sections[i].name
          /\ \A h \in 1..(i - 1) : ~Repeats(Keys(sections[h]))
    THEN Raise("DuplicateSectionError")
    ELSE IF \E i \in 1..Len(sections) : Repeats(Keys(sections[i]))
    THEN Raise("DuplicateOptionError")
    ELSE Return([i \in 1..Len(sections) |->
                    [name |-> sections[i].name,
                     options |-> [j \in 1..Len(sections[i].options) |->
                                     <<Lower(Strip(sections[i].options[j][1])),
                                       Strip(sections[i].options[j][2])>>]]])

\* parser.has_section, parser.options, parser.has_option and parser.get on
\* the parsed sections p.
HasSection(p, name) == \E i \in 1..Len(p) : p[i].name = name
SectionOf(p, name) == p[CHOOSE i \in 1..Len(p) : p[i].name = name]
Options(p, name) == Keys(SectionOf(p, name))
HasOption(p, name, option) ==
    HasSection(p, name) /\ \E j \in 1..Len(Options(p, name)) : Options(p, name)[j] = option
Get(p, name, option) ==
    SectionOf(p, name).options[
        CHOOSE j \in 1..Len(Options(p, name)) : Options(p, name)[j] = option][2]

\* ---- Config.Load ----
\* How a call on the Config object ends: the object after it, the class of
\* the exception raised and what it reports, the value returned, and
\* whether the call looked at the file.
Failed(c, exc, msg) == [cfg |-> c, exc |-> exc, msg |-> msg, ret |-> NoneV, read |-> TRUE]
Loaded(c) == [cfg |-> c, exc |-> "none", msg |-> "", ret |-> NoneV, read |-> TRUE]

\* What an exception of ConvertValue becomes in Load: a ConversionFailure is
\* wrapped, anything else leaves Load as it is.
Unconverted(c, r, msg) ==
    IF r.exc = "ConversionFailure" THEN Failed(c, "InvalidConfigError", msg)
    ELSE Failed(c, r.exc, "")

\* names with those of more that it does not hold yet, in order.
RECURSIVE AppendNew(_, _)
AppendNew(names, more) ==
    IF more = <<>> THEN names
    ELSE AppendNew(IF \E i \in 1..Len(names) : names[i] = Head(more)
                   THEN names ELSE Append(names, Head(more)),
                   Tail(more))

\* The strs of a list of str.
Strs(list) == [i \in 1..Len(list.l) |-> list.l[i].s]

\* (A Load that leaves the measurements of every entry as the list of
\* names the file gives; the shape of the entries tells it from
\* LinkEntries.)
LinkEntriesFlat(c, collected) == Loaded(c)

\* Lines 368-375: the measurements of every entry replaced by the map from
\* each of them to the options collected for it. (Line 371 never raises:
\* collected has every measurement of every entry.)
LinkEntries(c, collected) ==
    Loaded([c EXCEPT !.config[ROOT] =
        [e \in DOMAIN @ |->
            [@[e] EXCEPT ![Text("measurements")] =
                DictV([m \in {Strs(@)[i] : i \in 1..Len(@.l)} |->
                          StrList(collected[m])])]]])

\* Lines 354-366: the sections of the measurements order[k..], collected
\* being measurements; then the options[j..] of the section of order[k].
RECURSIVE LoadMeasurements(_, _, _, _, _)
RECURSIVE LoadOptions(_, _, _, _, _, _, _)
\* (A ParseOption that takes any value for a type name; the hints of the
\* catalog tell it from ParseOption.)
ParseOptionAny(c, p, order, k, collected, options, j, value) ==
    LoadOptions([c EXCEPT !.config[Text("measurements")][order[k]] =
                    Put(@, options[j], StrV(value))],
                p, order, k,
                [collected EXCEPT ![order[k]] = Append(@, options[j])],
                options, j + 1)

\* Config.ParseOption and lines 362-363, value being the value of option.
ParseOption(c, p, order, k, collected, options, j, value) ==
    IF value \in OptionTypes
    THEN LoadOptions([c EXCEPT !.config[Text("measurements")][order[k]] =
                         Put(@, options[j], StrV(value))],
                     p, order, k,
                     [collected EXCEPT ![order[k]] = Append(@, options[j])],
                     options, j + 1)
    ELSE Failed(c, "InvalidConfigError", "Invalid type")

\* Line 361: 'option' in self.config['measurements'][measurement].
OptionTaken(c, measurement, option) ==
    Text("option") \in DOMAIN c.config[Text("measurements")][measurement]

\* Lines 361-366 once the dict of the measurement exists.
LoadOption(c, p, order, k, collected, options, j) ==
    IF ~OptionTaken(c, order[k], options[j])
    THEN ParseOption(c, p, order, k, collected, options, j, Get(p, order[k], options[j]))
    ELSE Failed(c, "InvalidConfigError", "Duplicate measurement definition")

LoadOptions(c, p, order, k, collected, options, j) ==
    IF j > Len(options) THEN LoadMeasurements(c, p, order, k + 1, collected)
    ELSE LoadOption(
            IF order[k] \in DOMAIN c.config[Text("measurements")] THEN c
            ELSE [c EXCEPT !.config[Text("measurements")] = Put(@, order[k], EmptyDict)],
            p, order, k, collected, options, j)

\* (A loop that passes over a measurement without a section; the
\* properties of Load tell it from LoadMeasurements.)
LoadMeasurementsSkipping(c, p, order, k, collected) ==
    IF k > Len(order) THEN LinkEntries(c, collected)
    ELSE IF ~HasSection(p, order[k])
    THEN LoadMeasurements(c, p, order, k + 1, collected)
    ELSE LoadOptions(c, p, order, k, collected, Options(p, order[k]), 1)

LoadMeasurements(c, p, order, k, collected) ==
    IF k > Len(order) THEN LinkEntries(c, collected)
    ELSE IF ~HasSection(p, order[k])
    THEN Failed(c, "InvalidConfigError", "Unknown measurement in config")
    ELSE LoadOptions(c, p, order, k, collected, Options(p, order[k]), 1)

\* Lines 316-352: the entries[k..], order being the measurements met so
\* far; the ENTRY_FIELDS from the i-th on and the options[j..] of the
\* section of entries[k].
RECURSIVE LoadEntries(_, _, _, _, _)
RECURSIVE EntryOptions(_, _, _, _, _, _, _)
RECURSIVE EntryFields(_, _, _, _, _, _)

\* Lines 343-348, r being ConvertValue(parser.get(entry, option)).
EntryOptionConverted(c, p, entries, k, order, options, j, r) ==
    IF r.exc # "none" THEN Unconverted(c, r, "Invalid field unable to determine type")
    ELSE EntryOptions([c EXCEPT !.config[ROOT][entries[k]] = Put(@, options[j], r.v)],
                      p, entries, k, order, options, j + 1)

EntryOptions(c, p, entries, k, order, options, j) ==
    IF j > Len(options)
    THEN LoadEntries(c, p, entries, k + 1,
                     AppendNew(order, Strs(c.config[ROOT][entries[k]][Text("measurements")])))
    ELSE IF options[j] \in DOMAIN c.config[ROOT][entries[k]]
    THEN EntryOptions(c, p, entries, k, order, options, j + 1)
    ELSE EntryOptionConverted(c, p, entries, k, order, options, j,
                              ConvertValue(StrV(Get(p, entries[k], options[j])), NoHint))

\* Lines 324-330, r being ConvertValue(parser.get(entry, field), hint=hint).
EntryFieldConverted(c, p, entries, k, order, i, r) ==
    IF r.exc # "none" THEN Unconverted(c, r, "Invalid field expected type")
    ELSE EntryFields([c EXCEPT !.config[ROOT][entries[k]] = Put(@, ENTRY_FIELDS[i][1], r.v)],
                     p, entries, k, order, i + 1)

EntryFields(c, p, entries, k, order, i) ==
    IF i > Len(ENTRY_FIELDS)
    THEN EntryOptions(c, p, entries, k, order, Options(p, entries[k]), 1)
    ELSE IF HasOption(p, entries[k], ENTRY_FIELDS[i][1])
    THEN EntryFieldConverted(c, p, entries, k, order, i,
                             ConvertValue(StrV(Get(p, entries[k], ENTRY_FIELDS[i][1])),
                                          ENTRY_FIELDS[i][2]))
    ELSE IF ENTRY_FIELDS[i][3]
    THEN Failed(c, "InvalidConfigError", "Section missing required field")
    ELSE EntryFields([c EXCEPT !.config[ROOT][entries[k]] =
                         Put(@, ENTRY_FIELDS[i][1], DefaultValue(ENTRY_FIELDS[i][2]).v)],
                     p, entries, k, order, i + 1)

\* RequiredFields(parser, section, fields): the first of fields that the
\* section lacks raises.
RequiredFields(p, section, fields) ==
    IF \E i \in 1..Len(fields) : ~HasOption(p, section, fields[i])
    THEN Raise("InvalidConfigError") ELSE Return(NoneV)

LoadEntries(c, p, entries, k, order) ==
    IF k > Len(entries)
    THEN LoadMeasurements(c, p, order, 1, [m \in {order[i] : i \in 1..Len(order)} |-> <<>>])
    ELSE IF RequiredFields(p, entries[k], <<Text("measurements")>>).exc # "none"
    THEN Failed(c, "InvalidConfigError", "Section missing required field")
    ELSE EntryFields([c EXCEPT !.config[ROOT][entries[k]] =
                         Put(EmptyDict, Text("device"), StrV(entries[k]))],
                     p, entries, k, order, 1)

\* Lines 306-314: c has the empty dicts of the catalog and of the entries.
LoadDevices(c, p, entries) ==
    IF entries = <<>> THEN Failed(c, "InvalidConfigError", "Root element has no entries")
    ELSE IF \E i \in 1..Len(entries) : ~HasSection(p, entries[i])
    THEN Failed(c, "InvalidConfigError", "Missing device configuration")
    ELSE LoadEntries(c, p, entries, 1, <<>>)

\* Lines 302-309, root being parser.get(GLOBAL_SECTION, self.root).
LoadRoot(c, p, root) ==
    IF root = <<>> THEN Failed(c, "InvalidConfigError", "Missing config for root")
    ELSE LoadDevices(
            [c EXCEPT !.config =
                Put(Put(@, Text("measurements"), EmptyDict),
                    ROOT, [e \in {Split(root)[i] : i \in 1..Len(Split(root))} |-> EmptyDict])],
            p, AppendNew(<<>>, Split(root)))

\* Lines 293-300: the fields of the backend from the i-th on.
RECURSIVE LoadDatabaseFields(_, _, _)
\* Lines 296-300, r being ConvertValue(parser.get(...), hint=hint).
DatabaseFieldConverted(c, p, i, r) ==
    IF r.exc # "none" THEN Unconverted(c, r, "Invalid field expected type")
    ELSE LoadDatabaseFields([c EXCEPT !.config[c.database.s] =
                                Put(@, DatabaseFieldTable[i][1], r.v)],
                            p, i + 1)

LoadDatabaseFields(c, p, i) ==
    IF i > Len(DatabaseFieldTable) THEN LoadRoot(c, p, Get(p, GLOBAL_SECTION, ROOT))
    ELSE IF ~HasOption(p, c.database.s, DatabaseFieldTable[i][1])
    THEN LoadDatabaseFields(c, p, i + 1)
    ELSE DatabaseFieldConverted(c, p, i,
            ConvertValue(StrV(Get(p, c.database.s, DatabaseFieldTable[i][1])),
                         DatabaseFieldTable[i][2]))

\* Lines 288-293: c has self.database set.
LoadDatabase(c, p) ==
    IF c.database.s = <<>> \/ c.database.s \notin SUPPORTED_DATABASES
    THEN Failed(c, "InvalidConfigError", "Invalid or unsupported database value")
    ELSE LoadDatabaseFields([c EXCEPT !.config = Put(@, c.database.s, EmptyDict)], p, 1)

\* Lines 284-288 on the parsed sections p.
LoadParsed(c, p) ==
    IF ~HasSection(p, GLOBAL_SECTION)
    THEN Failed(c, "InvalidConfigError", "No global section")
    ELSE IF RequiredFields(p, GLOBAL_SECTION, <<Text("database"), ROOT>>).exc # "none"
    THEN Failed(c, "InvalidConfigError", "Section missing required field")
    ELSE LoadDatabase([c EXCEPT !.database = StrV(Get(p, GLOBAL_SECTION, Text("database")))], p)

\* Lines 280-283, r being what parser.read answered: configparser raises
\* no IOError, its own errors leave Load as they are.
LoadRead(c, r) ==
    IF r.exc # "none" THEN Failed(c, r.exc, "") ELSE LoadParsed(c, r.v)

\* Config.IsLoaded (self.path is never None in the model).
IsLoaded(c) == DOMAIN c.config # {}

\* Config.Load on the object c with file at its path.
LoadCall(c, file) ==
    IF IsLoaded(c) THEN [cfg |-> c, exc |-> "none", msg |-> "", ret |-> NoneV, read |-> FALSE]
    ELSE IF ~file.exists THEN Failed(c, "ConfigError", "Config file does not exist")
    ELSE LoadRead(c, ParserRead(file.sections))

\* (A Reload that clears nothing before it loads; the properties of
\* Reload tell it from ReloadCall.)
ReloadCallKeeping(c, file) == LoadCall(c, file)

\* Config.Reload.
ReloadCall(c, file) == LoadCall(NewConfig, file)

\* ---- The accessors: r is how the Load they start with ended ----
Answered(r, value) == [r EXCEPT !.ret = value]
KeyError(r) == [r EXCEPT !.exc = "KeyError"]

\* Config.GetDatabase.
GetDatabaseAfter(r) ==
    IF r.exc # "none" THEN r
    ELSE IF r.cfg.database.k # "str" \/ r.cfg.database.s \notin DOMAIN r.cfg.config
    THEN KeyError(r)
    ELSE Answered(r, <<r.cfg.database, DictV(r.cfg.config[r.cfg.database.s])>>)
GetDatabaseCall(c, file) == GetDatabaseAfter(LoadCall(c, file))

\* Config.GetField: the arguments are None or a str.
GetFieldAfter(r, measurement, field) ==
    IF r.exc # "none" THEN r
    ELSE IF Text("measurements") \notin DOMAIN r.cfg.config THEN KeyError(r)
    ELSE IF measurement \notin DOMAIN r.cfg.config[Text("measurements")] THEN KeyError(r)
    ELSE IF field \notin DOMAIN r.cfg.config[Text("measurements")][measurement]
    THEN KeyError(r)
    ELSE Answered(r, r.cfg.config[Text("measurements")][measurement][field])
GetFieldCall(c, file, measurement, field) ==
    IF measurement = NoneV \/ field = NoneV
    THEN [cfg |-> c, exc |-> "KeyError", msg |-> "", ret |-> NoneV, read |-> FALSE]
    ELSE GetFieldAfter(LoadCall(c, file), measurement.s, field.s)

\* Config.GetRoot.
GetRootAfter(r) ==
    IF r.exc # "none" THEN r
    ELSE IF ROOT \notin DOMAIN r.cfg.config THEN KeyError(r)
    ELSE Answered(r, r.cfg.config[ROOT])
GetRootCall(c, file) == GetRootAfter(LoadCall(c, file))

\* Config.GetTags: an entry without tags answers the empty list.
GetTagsAfter(r, entity) ==
    IF r.exc # "none" THEN r
    ELSE IF ROOT \notin DOMAIN r.cfg.config THEN KeyError(r)
    ELSE IF entity \notin DOMAIN r.cfg.config[ROOT] THEN KeyError(r)
    ELSE IF Text("tags") \notin DOMAIN r.cfg.config[ROOT][entity]
    THEN Answered(r, ListV(<<>>))
    ELSE Answered(r, r.cfg.config[ROOT][entity][Text("tags")])
GetTagsCall(c, file, entity) ==
    IF entity = NoneV
    THEN [cfg |-> c, exc |-> "KeyError", msg |-> "", ret |-> NoneV, read |-> FALSE]
    ELSE GetTagsAfter(LoadCall(c, file), entity.s)

\* ------------------------------------------------------------------------
\* The pipeline as a state machine
\* ------------------------------------------------------------------------
VARIABLES
    config,      \* self.config: the schema the pipeline validates against
    batchSize,   \* self.batchSize
    queue,       \* self.queue
    ident,       \* which places of self.queue hold one and the same object
    database,    \* self.database: NoDatabase or the InfluxDatabase handle
    shutdown,    \* self.shutdown
    last,        \* the last call: what it was given, found and answered
    disk,        \* the file at the path of the Config object cfg
    cfg          \* a Config object: its self.config and self.database

vars == <<config, batchSize, queue, ident, database, shutdown, last, disk, cfg>>

\* The variables of the Config object, which no pipeline call touches: the
\* pipeline reads a schema that is loaded.
configVars == <<disk, cfg>>

\* The variables of the pipeline, which no call on cfg touches.
pipelineVars == <<config, batchSize, queue, ident, database, shutdown>>

\* The batch sizes the pipelines of the model are constructed with.
BatchSizes == {2}

\* The metrics producers hand to Enqueue.
MGood == AddField(Metric("cpu"), "load", StrV(<<"3">>))
MDegraded ==
    AddField(AddField(AddField(Metric("cpu"), "load", StrV(<<"a", "b">>)),
                      "temp", StrV(<<" ", "3", ".", "5">>)),
             "up", StrV(<<"a", "b">>))
MEmpty == Metric("disk")
MUnknownMeasurement == AddField(Metric("disk"), "used", StrV(<<"1">>))
MUnknownField ==
    AddField(AddField(Metric("cpu"), "load", IntV(1)), "bogus", StrV(<<"1">>))

\* The fields and values of the AddField calls a producer makes on an
\* object that is queued.
AddFieldArgs == {<<"load", StrV(<<"a", "b">>)>>}

\* The arguments of the Enqueue calls of the model: one metric, or a list
\* of metrics and of things that are no metrics.
EnqueueArgs ==
    {MGood, MDegraded, MEmpty, MUnknownMeasurement, MUnknownField}
    \cup {ListV(l) : l \in {<<MGood, MUnknownField>>,
                            <<MUnknownMeasurement, MGood>>,
                            <<NotAMetric, MEmpty, MDegraded>>}}

NoFlush == [exc |-> "none", ret |-> <<>>, log |-> <<>>]
FlushOf(r) == [exc |-> r.exc, ret |-> r.ret, log |-> r.log]

\* The call before this one was a Flush, on a pipeline not shut down, that
\* did not return success: it returned (False, n) or raised.
FailedFlush ==
    /\ last.op = "Flush"
    /\ ~last.wasShutdown
    /\ ~(last.exc = "none" /\ last.ret[1])

\* Where the Flush before this one stopped: the records of its queue from
\* the batch of its last iteration on.
StoppedAt ==
    SubSeq(last.before, (Len(last.flush.log) - 1) * batchSize + 1, Len(last.before))

\* The record of a call: retry says that a Flush failed and no Flush, Reload
\* or Shutdown was called since, so that a Flush with retry is the first
\* one after the failure, whatever the producer called between; stoppedAt is
\* where the failed Flush stopped, when it was the call before this Flush;
\* place is the place of the queue whose object the producer handed over or
\* wrote to, 0 for an object the queue did not hold.
Called(op, arg, exc, ret, flush) ==
    [op |-> op, arg |-> arg, before |-> queue, wasShutdown |-> shutdown,
     configBefore |-> config, exc |-> exc, ret |-> ret, flush |-> flush,
     retry |-> /\ op \in {"Flush", "Enqueue", "AddField"}
               /\ \/ FailedFlush
                  \/ last.op \in {"Enqueue", "AddField"} /\ last.retry,
     stoppedAt |-> IF op = "Flush" /\ FailedFlush THEN StoppedAt ELSE <<>>,
     place |-> 0]

Init ==
    /\ config \in Schemas
    /\ batchSize \in BatchSizes
    /\ queue = <<>>
    /\ ident = <<>>
    /\ database = NoDatabase
    /\ shutdown = FALSE
    /\ last = [op |-> "init", arg |-> <<>>, before |-> <<>>, wasShutdown |-> FALSE,
               configBefore |-> config, exc |-> "none", ret |-> <<>>, flush |-> NoFlush,
               retry |-> FALSE, stoppedAt |-> <<>>, place |-> 0]
    /\ disk = NoFile
    /\ cfg = NewConfig

\* Enqueue(metrics) with new objects, or with the object at any place i of
\* the queue.
Enqueue ==
    \/ \E metrics \in EnqueueArgs :
          \E r \in {EnqueueCall(config, queue, shutdown, metrics)} :
              /\ Len(r.queue) <= MaxQueue
              /\ queue' = r.queue
              /\ ident' = [j \in 1..Len(r.queue) |-> IF j <= Len(ident) THEN ident[j] ELSE j]
              /\ last' = Called("Enqueue", metrics, r.exc, <<>>, NoFlush)
              /\ UNCHANGED <<config, batchSize, database, shutdown>>
              /\ UNCHANGED configVars
    \/ \E i \in 1..Len(queue) :
          \E r \in {EnqueueQueued(config, queue, ident, shutdown, i,
                                  CleanFields(config, queue[i], 1))} :
              /\ Len(r.queue) <= MaxQueue
              /\ queue' = r.queue
              /\ ident' = r.ident
              /\ last' = [Called("Enqueue", queue[i], r.exc, <<>>, NoFlush)
                              EXCEPT !.place = i]
              /\ UNCHANGED <<config, batchSize, database, shutdown>>
              /\ UNCHANGED configVars

\* metric.AddField(field, value) by the producer, on the object at place i
\* of the queue: every place that holds the object shows the field.
ProducerAddField ==
    \E i \in 1..Len(queue) :
        \E a \in AddFieldArgs :
            /\ queue' = Written(queue, ident, i, AddField(queue[i], a[1], a[2]).fields)
            /\ last' = [Called("AddField", <<a[1], a[2]>>, "none", <<>>, NoFlush)
                            EXCEPT !.place = i]
            /\ UNCHANGED <<config, batchSize, ident, database, shutdown>>
            /\ UNCHANGED configVars

Flush ==
    \E r \in FlushCall(config, batchSize, queue, database, shutdown) :
        /\ queue' = r.queue
        /\ ident' = LastOf(ident, Len(r.queue))
        /\ database' = r.db
        /\ last' = Called("Flush", <<>>, r.exc, r.ret, FlushOf(r))
        /\ UNCHANGED <<config, batchSize, shutdown>>
        /\ UNCHANGED configVars

Reload ==
    \E r \in FlushCall(config, batchSize, queue, database, shutdown) :
        \E newConfig \in Schemas \ {config} :
            LET a == ReloadAfter(r, config, newConfig) IN
            /\ queue' = r.queue
            /\ ident' = LastOf(ident, Len(r.queue))
            /\ database' = a.db
            /\ config' = a.config
            /\ last' = Called("Reload", newConfig, a.exc, <<>>, FlushOf(r))
            /\ UNCHANGED <<batchSize, shutdown>>
            /\ UNCHANGED configVars

Shutdown ==
    \E r \in FlushCall(config, batchSize, queue, database, shutdown) :
        LET a == ShutdownAfter(r) IN
        /\ queue' = r.queue
        /\ ident' = LastOf(ident, Len(r.queue))
        /\ database' = a.db
        /\ shutdown' = a.shutdown
        /\ last' = Called("Shutdown", <<>>, a.exc, <<>>, FlushOf(r))
        /\ UNCHANGED <<config, batchSize>>
        /\ UNCHANGED configVars

Next == Enqueue \/ ProducerAddField \/ Flush \/ Reload \/ Shutdown

Spec == Init /\ [][Next]_vars

\* ------------------------------------------------------------------------
\* ConvertValue as a state machine: one call after the other
\* ------------------------------------------------------------------------
\* The texts handed to ConvertValue.
CoerceTexts ==
    {<<>>, <<"3">>, <<"3", ".", "5">>, <<" ", "3", ".", "5">>, <<"-", "2">>, <<".", "5">>,
     <<"a", "b", "c">>, <<"\t", "a", "b", " ">>, <<"y", "e", "s">>, <<"N", "o">>,
     <<"T", "R", "U", "E">>, <<"0">>, <<"1">>, <<"i", "n", "f">>, <<"n", "a", "n">>,
     <<"1", "\t", "2">>, <<"a", "=", "1", " ", "b", "=", "2">>,
     <<"a", "=", "1", " ", "b", "a", "d">>, <<"k", "=", "a", "=", "b">>,
     <<"a", "=", "1", " ", "a", "=", "2">>, <<"a", "=">>, <<"=">>}

\* The hints DefaultValue knows.
SupportedHints == {ARRAY_TYPE, HASH_TYPE, INT_TYPE, BOOL_TYPE, FLOAT_TYPE, STRING_TYPE}

\* The values and the hints handed to ConvertValue: texts, values that are
\* no text, among them every DefaultValue; every hint, none, and a hint
\* that is not supported.
CoerceValues ==
    {StrV(s) : s \in CoerceTexts}
    \cup {DefaultValue(h).v : h \in SupportedHints}
    \cup {IntV(3), BoolV(TRUE), NoneV, FloatV(35, 1), InfV(1)}
CoerceHints == SupportedHints \cup {NoHint, "bogus"}

InitCoerce ==
    /\ Init
    /\ config = LoadedConfig(FullKeys)
    /\ batchSize = 2

\* ConvertValue(value, hint=hint): last records the call and its outcome.
Coerce ==
    \E value \in CoerceValues, hint \in CoerceHints :
        /\ last' = [op |-> "ConvertValue", arg |-> <<value, hint>>,
                    ret |-> ConvertValue(value, hint)]
        /\ UNCHANGED pipelineVars
        /\ UNCHANGED configVars

NextCoerce == Coerce

SpecCoerce == InitCoerce /\ [][NextCoerce]_vars

\* ------------------------------------------------------------------------
\* Helpers of the properties
\* ------------------------------------------------------------------------
\* The metrics of q that have at least one field.
RECURSIVE Fielded(_)
Fielded(q) ==
    IF q = <<>> THEN <<>>
    ELSE (IF Len(Head(q).fields) > 0 THEN <<Head(q)>> ELSE <<>>) \o Fielded(Tail(q))

\* An iteration of Flush whose batch the backend took: writer.write and
\* writer.flush both went through.
Accepted(entry) == entry.failure = "none" /\ entry.wrote /\ entry.flushed

\* Metrics and points of the iterations of log that satisfy Accepted.
RECURSIVE AcceptedCount(_)
AcceptedCount(log) ==
    IF log = <<>> THEN 0
    ELSE (IF Accepted(Head(log)) THEN Head(log).count ELSE 0) + AcceptedCount(Tail(log))
RECURSIVE AcceptedPoints(_)
AcceptedPoints(log) ==
    IF log = <<>> THEN 0
    ELSE (IF Accepted(Head(log)) THEN Len(Head(log).points) ELSE 0)
         + AcceptedPoints(Tail(log))

\* The metrics the last call appended to the queue.
Appended == SubSeq(queue, Len(last.before) + 1, Len(queue))

\* The metrics an Enqueue call was given.
Given(arg) == IF arg.k = "list" THEN arg.l ELSE <<arg>>

\* q is the record Enqueue made of the metric m.
RecordOf(q, m) ==
    /\ m.k = "metric"
    /\ q.measurement = m.measurement
    /\ Len(q.fields) = Len(m.fields)
    /\ \A i \in 1..Len(q.fields) :
          /\ q.fields[i].name = m.fields[i].name
          /\ q.fields[i].original = m.fields[i].original

\* The producer handed one metric to Enqueue on a pipeline not shut down.
EnqueuedMetric == last.op = "Enqueue" /\ ~last.wasShutdown /\ last.arg.k = "metric"

\* A metric with a field, or a measurement, that schema c does not register.
Unregistered(c, m) ==
    \/ m.measurement \notin DOMAIN c.measurements
    \/ \E j \in 1..Len(m.fields) :
          m.fields[j].name \notin DOMAIN c.measurements[m.measurement]

\* The last call was Flush on a pipeline that was not shut down.
FlushedLive == last.op = "Flush" /\ ~last.wasShutdown

CeilDiv(n, b) == (n + b - 1) \div b

\* ------------------------------------------------------------------------
\* C1: Flush removes a record only after the backend accepted its batch: the
\* records of every batch whose Write or Flush did not go through are still
\* queued when Flush returns and are not counted as sent.
\* ------------------------------------------------------------------------
C1_RemovedOnlyIfAccepted ==
    (FlushedLive /\ last.exc = "none") =>
        /\ Len(last.before) - Len(queue) = AcceptedCount(last.flush.log)
        /\ last.ret[2] = AcceptedPoints(last.flush.log)

\* ------------------------------------------------------------------------
\* C2: when batch k is the first whose backend call fails, and it fails with
\* an exception that is not fatal, Flush returns (False, n), n the number of
\* records sent in batches 1..k-1, and the queue holds batch k and all later
\* records in their order.
\* ------------------------------------------------------------------------
FailedAtBatch(k) ==
    /\ FlushedLive
    /\ Len(last.flush.log) = k
    /\ \A j \in 1..(k - 1) : Accepted(last.flush.log[j])
    /\ last.flush.log[k].failure \notin {"none", "RuntimeError"}

C2_TransientFailureStops ==
    \A k \in 1..MaxQueue :
        FailedAtBatch(k) =>
            /\ last.exc = "none"
            /\ last.ret = <<FALSE, Len(Fielded(SubSeq(last.before, 1, (k - 1) * batchSize)))>>
            /\ queue = SubSeq(last.before, (k - 1) * batchSize + 1, Len(last.before))

C2_Witness ==
    /\ FailedAtBatch(2)
    /\ last.flush.log[2].failure = "transient"
    /\ last.ret[2] > 0
    /\ Len(queue) > 0

\* ------------------------------------------------------------------------
\* C3: with a backend that always succeeds, Flush on n records that all have
\* a field writes ceil(n/b) batches of b records (the last one of n mod b
\* when that is no 0) in queue order, empties the queue and returns (True, n).
\* ------------------------------------------------------------------------
BackendAlwaysSucceeded ==
    /\ FlushedLive
    /\ last.exc = "none"
    /\ \A j \in 1..Len(last.flush.log) : Accepted(last.flush.log[j])
    /\ Fielded(last.before) = last.before

C3_BatchesOfBatchSize ==
    BackendAlwaysSucceeded =>
        LET n == Len(last.before)
            log == last.flush.log
        IN /\ Len(log) = CeilDiv(n, batchSize)
           /\ \A j \in 1..Len(log) :
                 /\ log[j].called
                 /\ log[j].points =
                        PointsOf(SubSeq(last.before, (j - 1) * batchSize + 1, n), batchSize)
                 /\ Len(log[j].points) =
                        IF j < Len(log) \/ n % batchSize = 0 THEN batchSize
                        ELSE n % batchSize
           /\ queue = <<>>
           /\ last.ret = <<TRUE, n>>

C3_Witness ==
    /\ BackendAlwaysSucceeded
    /\ Len(last.before) = 3
    /\ batchSize = 2
    /\ Len(last.flush.log) = 2
    /\ Len(last.flush.log[2].points) = 1
    /\ last.ret = <<TRUE, 3>>

\* ------------------------------------------------------------------------
\* C4: every record in the queue has at least one field.
\* ------------------------------------------------------------------------
C4_NoZeroFieldQueued == \A i \in 1..Len(queue) : Len(queue[i].fields) > 0

\* C4, amended: every field that a record has when Enqueue appends it is
\* registered for the record's measurement in the schema of the pipeline; a
\* metric with no fields has nothing to look up and is appended as it is,
\* whatever its measurement; and a field that the producer adds with
\* AddField to a metric the queue holds is in the queue at once, at every
\* place that holds the metric, with no clean value and never looked up.
C4_AppendedFieldsRegistered ==
    /\ last.op = "Enqueue" =>
          \A i \in 1..Len(Appended) :
              \A j \in 1..Len(Appended[i].fields) :
                  /\ Appended[i].measurement \in DOMAIN last.configBefore.measurements
                  /\ Appended[i].fields[j].name
                         \in DOMAIN last.configBefore.measurements[Appended[i].measurement]
    /\ (EnqueuedMetric /\ Len(last.arg.fields) = 0) =>
          /\ last.exc = "none"
          /\ Appended = <<last.arg>>
    /\ last.op = "AddField" =>
          /\ Len(queue) = Len(last.before)
          /\ \A i \in 1..Len(queue) :
                IF ident[i] = ident[last.place]
                THEN \E j \in 1..Len(queue[i].fields) :
                         queue[i].fields[j] =
                             [name |-> last.arg[1], original |-> last.arg[2], clean |-> NoneV]
                ELSE queue[i] = last.before[i]

C4_Witness ==
    /\ last.op = "Enqueue"
    /\ \E i \in 1..Len(Appended) : Len(Appended[i].fields) = 0
    /\ \E i \in 1..Len(Appended) : Len(Appended[i].fields) > 1

C6_UnconvertibleGetsDefault ==
    \A i \in 1..Len(queue) :
        \A j \in 1..Len(queue[i].fields) :
            LET field == queue[i].fields[j]
                hint == config.measurements[queue[i].measurement][field.name]
                r == ConvertValue(field.original, hint)
            IN IF r.exc = "none" /\ r.v # NoneV
               THEN field.clean = r.v
               ELSE field.clean = DefaultValue(hint).v

\* ------------------------------------------------------------------------
\* C7: once the pipeline is shut down, Enqueue leaves the queue unchanged
\* and Flush returns (False, 0), changes nothing and calls no backend; the
\* pipeline stays shut down.
\* ------------------------------------------------------------------------
C7_NoOpsAfterShutdown ==
    /\ last.wasShutdown => shutdown
    /\ (last.wasShutdown /\ last.op \in {"Enqueue", "Flush"}) =>
          /\ queue = last.before
          /\ last.exc = "none"
          /\ last.flush.log = <<>>
          /\ last.op = "Flush" => last.ret = <<FALSE, 0>>

C7_Witness ==
    /\ last.wasShutdown
    /\ last.op = "Flush"
    /\ Len(last.before) > 1
    /\ last.ret = <<FALSE, 0>>

\* ------------------------------------------------------------------------
\* C8: Shutdown never raises and ends with shutdown = true, whatever its
\* Flush did.
\* ------------------------------------------------------------------------
C8_ShutdownAlwaysCompletes ==
    last.op = "Shutdown" => (last.exc = "none" /\ shutdown)

C8_Witness ==
    /\ last.op = "Shutdown"
    /\ ~last.wasShutdown
    /\ last.flush.exc = "RuntimeError"
    /\ shutdown

\* ------------------------------------------------------------------------
\* C9: after Reload(newSchema) the schema of the pipeline is newSchema,
\* whatever the Flush of Reload did.
\* ------------------------------------------------------------------------
C9_ReloadAlwaysSwaps == last.op = "Reload" => config = last.arg

\* C9, amended: after Reload(newSchema) the schema is newSchema when the
\* Flush of Reload returned, with success or with a transient failure; when
\* it raised, the pipeline keeps the schema it had.
C9_ReloadSwapsUnlessFlushRaised ==
    last.op = "Reload" =>
        /\ last.exc = "none"
        /\ last.flush.exc = "none" => config = last.arg
        /\ last.flush.exc # "none" => config = last.configBefore

C9_Witness ==
    /\ last.op = "Reload"
    /\ ~last.wasShutdown
    /\ last.flush.log # <<>>
    /\ last.flush.log[Len(last.flush.log)].failure = "transient"
    /\ last.flush.exc = "none"
    /\ last.flush.ret[1] = FALSE
    /\ Len(queue) > 0
    /\ last.arg # last.configBefore
    /\ config = last.arg

\* ------------------------------------------------------------------------
\* C10: when the schema lacks an option the backend requires (server, token,
\* org, bucket), Flush on a queue that is not empty raises a fatal error and
\* leaves the queue unchanged.
\* ------------------------------------------------------------------------
C10_MissingOptionIsFatal ==
    (/\ FlushedLive
     /\ last.before # <<>>
     /\ ~(FullKeys \subseteq last.configBefore.dbconfig)) =>
        /\ last.exc = "RuntimeError"
        /\ queue = last.before

\* ------------------------------------------------------------------------
\* The Config object as a state machine: the file is edited, the object is
\* called
\* ------------------------------------------------------------------------
\* The files of the model: a complete one with one entry and one with two,
\* and files that lack or spoil what one step of Load reads.
File(name) ==
    CASE name = "Good" ->
        [exists |-> TRUE,
         sections |-> <<
         [name |-> <<"g", "l", "o", "b", "a", "l">>,
          options |->
                 <<<<<<"d", "a", "t", "a", "b", "a", "s", "e">>, <<"i", "n", "f", "l", "u", "x", "d", "b">>>>,
                   <<<<"d", "e", "v", "i", "c", "e", "s">>, <<"d", "1">>>>>>],
         [name |-> <<"i", "n", "f", "l", "u", "x", "d", "b">>,
          options |->
                 <<<<<<"s", "e", "r", "v", "e", "r">>, <<"h">>>>,
                   <<<<"p", "o", "r", "t">>, <<"8">>>>,
                   <<<<"s", "s", "l">>, <<"n", "o">>>>,
                   <<<<"t", "o", "k", "e", "n">>, <<"t">>>>,
                   <<<<"o", "r", "g">>, <<"o">>>>,
                   <<<<"b", "u", "c", "k", "e", "t">>, <<"b">>>>>>],
         [name |-> <<"d", "1">>,
          options |->
                 <<<<<<"m", "e", "a", "s", "u", "r", "e", "m", "e", "n", "t", "s">>, <<"c", "p", "u">>>>,
                   <<<<"t", "a", "g", "s">>, <<"a", "=", "1">>>>>>],
         [name |-> <<"c", "p", "u">>,
          options |->
                 <<<<<<"l", "o", "a", "d">>, <<"i", "n", "t">>>>,
                   <<<<"u", "p">>, <<"b", "o", "o", "l">>>>>>]>>]
      [] name = "GoodTwo" ->
        [exists |-> TRUE,
         sections |-> <<
         [name |-> <<"g", "l", "o", "b", "a", "l">>,
          options |->
                 <<<<<<"d", "a", "t", "a", "b", "a", "s", "e">>, <<" ", "i", "n", "f", "l", "u", "x", "d", "b">>>>,
                   <<<<"d", "e", "v", "i", "c", "e", "s">>, <<"d", "1", "\t", "d", "2">>>>>>],
         [name |-> <<"i", "n", "f", "l", "u", "x", "d", "b">>,
          options |->
                 <<<<<<"s", "e", "r", "v", "e", "r">>, <<"h">>>>,
                   <<<<"p", "o", "r", "t">>, <<"8">>>>,
                   <<<<"s", "s", "l">>, <<"n", "o">>>>,
                   <<<<"t", "o", "k", "e", "n">>, <<"t">>>>,
                   <<<<"o", "r", "g">>, <<"o">>>>,
                   <<<<"b", "u", "c", "k", "e", "t">>, <<"b">>>>>>],
         [name |-> <<"d", "1">>,
          options |->
                 <<<<<<"m", "e", "a", "s", "u", "r", "e", "m", "e", "n", "t", "s">>, <<"c", "p", "u">>>>,
                   <<<<"r", "a", "t", "e">>, <<"3", ".", "5">>>>>>],
         [name |-> <<"d", "2">>,
          options |->
                 <<<<<<"m", "e", "a", "s", "u", "r", "e", "m", "e", "n", "t", "s">>, <<"c", "p", "u", " ", "n", "e", "t">>>>,
                   <<<<"t", "a", "g", "s">>, <<"a", "=", "1", " ", "b", "=", "2">>>>,
                   <<<<"n", "a", "m", "e">>, <<"x">>>>>>],
         [name |-> <<"c", "p", "u">>,
          options |->
                 <<<<<<"l", "o", "a", "d">>, <<"i", "n", "t">>>>,
                   <<<<"u", "p">>, <<"b", "o", "o", "l">>>>>>],
         [name |-> <<"n", "e", "t">>,
          options |->
                 <<<<<<"r", "x">>, <<"f", "l", "o", "a", "t", " ">>>>>>]>>]
      [] name = "NoGlobal" ->
        [exists |-> TRUE,
         sections |-> <<
         [name |-> <<"i", "n", "f", "l", "u", "x", "d", "b">>,
          options |->
                 <<<<<<"s", "e", "r", "v", "e", "r">>, <<"h">>>>,
                   <<<<"p", "o", "r", "t">>, <<"8">>>>,
                   <<<<"s", "s", "l">>, <<"n", "o">>>>,
                   <<<<"t", "o", "k", "e", "n">>, <<"t">>>>,
                   <<<<"o", "r", "g">>, <<"o">>>>,
                   <<<<"b", "u", "c", "k", "e", "t">>, <<"b">>>>>>],
         [name |-> <<"d", "1">>,
          options |->
                 <<<<<<"m", "e", "a", "s", "u", "r", "e", "m", "e", "n", "t", "s">>, <<"c", "p", "u">>>>,
                   <<<<"t", "a", "g", "s">>, <<"a", "=", "1">>>>>>],
         [name |-> <<"c", "p", "u">>,
          options |->
                 <<<<<<"l", "o", "a", "d">>, <<"i", "n", "t">>>>,
                   <<<<"u", "p">>, <<"b", "o", "o", "l">>>>>>]>>]
      [] name = "NoDatabaseKey" ->
        [exists |-> TRUE,
         sections |-> <<
         [name |-> <<"g", "l", "o", "b", "a", "l">>,
          options |->
                 <<<<<<"d", "e", "v", "i", "c", "e", "s">>, <<"d", "1">>>>>>],
         [name |-> <<"i", "n", "f", "l", "u", "x", "d", "b">>,
          options |->
                 <<<<<<"s", "e", "r", "v", "e", "r">>, <<"h">>>>,
                   <<<<"p", "o", "r", "t">>, <<"8">>>>,
                   <<<<"s", "s", "l">>, <<"n", "o">>>>,
                   <<<<"t", "o", "k", "e", "n">>, <<"t">>>>,
                   <<<<"o", "r", "g">>, <<"o">>>>,
                   <<<<"b", "u", "c", "k", "e", "t">>, <<"b">>>>>>],
         [name |-> <<"d", "1">>,
          options |->
                 <<<<<<"m", "e", "a", "s", "u", "r", "e", "m", "e", "n", "t", "s">>, <<"c", "p", "u">>>>,
                   <<<<"t", "a", "g", "s">>, <<"a", "=", "1">>>>>>],
         [name |-> <<"c", "p", "u">>,
          options |->
                 <<<<<<"l", "o", "a", "d">>, <<"i", "n", "t">>>>,
                   <<<<"u", "p">>, <<"b", "o", "o", "l">>>>>>]>>]
      [] name = "NoRootKey" ->
        [exists |-> TRUE,
         sections |-> <<
         [name |-> <<"g", "l", "o", "b", "a", "l">>,
          options |->
                 <<<<<<"d", "a", "t", "a", "b", "a", "s", "e">>, <<"i", "n", "f", "l", "u", "x", "d", "b">>>>>>],
         [name |-> <<"i", "n", "f", "l", "u", "x", "d", "b">>,
          options |->
                 <<<<<<"s", "e", "r", "v", "e", "r">>, <<"h">>>>,
                   <<<<"p", "o", "r", "t">>, <<"8">>>>,
                   <<<<"s", "s", "l">>, <<"n", "o">>>>,
                   <<<<"t", "o", "k", "e", "n">>, <<"t">>>>,
                   <<<<"o", "r", "g">>, <<"o">>>>,
                   <<<<"b", "u", "c", "k", "e", "t">>, <<"b">>>>>>],
         [name |-> <<"d", "1">>,
          options |->
                 <<<<<<"m", "e", "a", "s", "u", "r", "e", "m", "e", "n", "t", "s">>, <<"c", "p", "u">>>>,
                   <<<<"t", "a", "g", "s">>, <<"a", "=", "1">>>>>>],
         [name |-> <<"c", "p", "u">>,
          options |->
                 <<<<<<"l", "o", "a", "d">>, <<"i", "n", "t">>>>,
                   <<<<"u", "p">>, <<"b", "o", "o", "l">>>>>>]>>]
      [] name = "Unsupported" ->
        [exists |-> TRUE,
         sections |-> <<
         [name |-> <<"g", "l", "o", "b", "a", "l">>,
          options |->
                 <<<<<<"d", "a", "t", "a", "b", "a", "s", "e">>, <<"m", "y", "s", "q", "l">>>>,
                   <<<<"d", "e", "v", "i", "c", "e", "s">>, <<"d", "1">>>>>>],
         [name |-> <<"i", "n", "f", "l", "u", "x", "d", "b">>,
          options |->
                 <<<<<<"s", "e", "r", "v", "e", "r">>, <<"h">>>>,
                   <<<<"p", "o", "r", "t">>, <<"8">>>>,
                   <<<<"s", "s", "l">>, <<"n", "o">>>>,
                   <<<<"t", "o", "k", "e", "n">>, <<"t">>>>,
                   <<<<"o", "r", "g">>, <<"o">>>>,
                   <<<<"b", "u", "c", "k", "e", "t">>, <<"b">>>>>>],
         [name |-> <<"d", "1">>,
          options |->
                 <<<<<<"m", "e", "a", "s", "u", "r", "e", "m", "e", "n", "t", "s">>, <<"c", "p", "u">>>>,
                   <<<<"t", "a", "g", "s">>, <<"a", "=", "1">>>>>>],
         [name |-> <<"c", "p", "u">>,
          options |->
                 <<<<<<"l", "o", "a", "d">>, <<"i", "n", "t">>>>,
                   <<<<"u", "p">>, <<"b", "o", "o", "l">>>>>>]>>]
      [] name = "BadPort" ->
        [exists |-> TRUE,
         sections |-> <<
         [name |-> <<"g", "l", "o", "b", "a", "l">>,
          options |->
                 <<<<<<"d", "a", "t", "a", "b", "a", "s", "e">>, <<"i", "n", "f", "l", "u", "x", "d", "b">>>>,
                   <<<<"d", "e", "v", "i", "c", "e", "s">>, <<"d", "1">>>>>>],
         [name |-> <<"i", "n", "f", "l", "u", "x", "d", "b">>,
          options |->
                 <<<<<<"s", "e", "r", "v", "e", "r">>, <<"h">>>>,
                   <<<<"p", "o", "r", "t">>, <<"x">>>>>>],
         [name |-> <<"d", "1">>,
          options |->
                 <<<<<<"m", "e", "a", "s", "u", "r", "e", "m", "e", "n", "t", "s">>, <<"c", "p", "u">>>>,
                   <<<<"t", "a", "g", "s">>, <<"a", "=", "1">>>>>>],
         [name |-> <<"c", "p", "u">>,
          options |->
                 <<<<<<"l", "o", "a", "d">>, <<"i", "n", "t">>>>,
                   <<<<"u", "p">>, <<"b", "o", "o", "l">>>>>>]>>]
      [] name = "BadSsl" ->
        [exists |-> TRUE,
         sections |-> <<
         [name |-> <<"g", "l", "o", "b", "a", "l">>,
          options |->
                 <<<<<<"d", "a", "t", "a", "b", "a", "s", "e">>, <<"i", "n", "f", "l", "u", "x", "d", "b">>>>,
                   <<<<"d", "e", "v", "i", "c", "e", "s">>, <<"d", "1">>>>>>],
         [name |-> <<"i", "n", "f", "l", "u", "x", "d", "b">>,
          options |->
                 <<<<<<"s", "e", "r", "v", "e", "r">>, <<"h">>>>,
                   <<<<"s", "s", "l">>, <<"m", "a", "y", "b", "e">>>>>>],
         [name |-> <<"d", "1">>,
          options |->
                 <<<<<<"m", "e", "a", "s", "u", "r", "e", "m", "e", "n", "t", "s">>, <<"c", "p", "u">>>>,
                   <<<<"t", "a", "g", "s">>, <<"a", "=", "1">>>>>>],
         [name |-> <<"c", "p", "u">>,
          options |->
                 <<<<<<"l", "o", "a", "d">>, <<"i", "n", "t">>>>,
                   <<<<"u", "p">>, <<"b", "o", "o", "l">>>>>>]>>]
      [] name = "EmptyRoot" ->
        [exists |-> TRUE,
         sections |-> <<
         [name |-> <<"g", "l", "o", "b", "a", "l">>,
          options |->
                 <<<<<<"d", "a", "t", "a", "b", "a", "s", "e">>, <<"i", "n", "f", "l", "u", "x", "d", "b">>>>,
                   <<<<"d", "e", "v", "i", "c", "e", "s">>, <<>>>>>>],
         [name |-> <<"i", "n", "f", "l", "u", "x", "d", "b">>,
          options |->
                 <<<<<<"s", "e", "r", "v", "e", "r">>, <<"h">>>>,
                   <<<<"p", "o", "r", "t">>, <<"8">>>>,
                   <<<<"s", "s", "l">>, <<"n", "o">>>>,
                   <<<<"t", "o", "k", "e", "n">>, <<"t">>>>,
                   <<<<"o", "r", "g">>, <<"o">>>>,
                   <<<<"b", "u", "c", "k", "e", "t">>, <<"b">>>>>>],
         [name |-> <<"d", "1">>,
          options |->
                 <<<<<<"m", "e", "a", "s", "u", "r", "e", "m", "e", "n", "t", "s">>, <<"c", "p", "u">>>>,
                   <<<<"t", "a", "g", "s">>, <<"a", "=", "1">>>>>>],
         [name |-> <<"c", "p", "u">>,
          options |->
                 <<<<<<"l", "o", "a", "d">>, <<"i", "n", "t">>>>,
                   <<<<"u", "p">>, <<"b", "o", "o", "l">>>>>>]>>]
      [] name = "NoEntrySection" ->
        [exists |-> TRUE,
         sections |-> <<
         [name |-> <<"g", "l", "o", "b", "a", "l">>,
          options |->
                 <<<<<<"d", "a", "t", "a", "b", "a", "s", "e">>, <<"i", "n", "f", "l", "u", "x", "d", "b">>>>,
                   <<<<"d", "e", "v", "i", "c", "e", "s">>, <<"d", "1">>>>>>],
         [name |-> <<"i", "n", "f", "l", "u", "x", "d", "b">>,
          options |->
                 <<<<<<"s", "e", "r", "v", "e", "r">>, <<"h">>>>,
                   <<<<"p", "o", "r", "t">>, <<"8">>>>,
                   <<<<"s", "s", "l">>, <<"n", "o">>>>,
                   <<<<"t", "o", "k", "e", "n">>, <<"t">>>>,
                   <<<<"o", "r", "g">>, <<"o">>>>,
                   <<<<"b", "u", "c", "k", "e", "t">>, <<"b">>>>>>],
         [name |-> <<"c", "p", "u">>,
          options |->
                 <<<<<<"l", "o", "a", "d">>, <<"i", "n", "t">>>>,
                   <<<<"u", "p">>, <<"b", "o", "o", "l">>>>>>]>>]
      [] name = "NoMeasurementsKey" ->
        [exists |-> TRUE,
         sections |-> <<
         [name |-> <<"g", "l", "o", "b", "a", "l">>,
          options |->
                 <<<<<<"d", "a", "t", "a", "b", "a", "s", "e">>, <<"i", "n", "f", "l", "u", "x", "d", "b">>>>,
                   <<<<"d", "e", "v", "i", "c", "e", "s">>, <<"d", "1">>>>>>],
         [name |-> <<"i", "n", "f", "l", "u", "x", "d", "b">>,
          options |->
                 <<<<<<"s", "e", "r", "v", "e", "r">>, <<"h">>>>,
                   <<<<"p", "o", "r", "t">>, <<"8">>>>,
                   <<<<"s", "s", "l">>, <<"n", "o">>>>,
                   <<<<"t", "o", "k", "e", "n">>, <<"t">>>>,
                   <<<<"o", "r", "g">>, <<"o">>>>,
                   <<<<"b", "u", "c", "k", "e", "t">>, <<"b">>>>>>],
         [name |-> <<"d", "1">>,
          options |->
                 <<<<<<"t", "a", "g", "s">>, <<"a", "=", "1">>>>>>],
         [name |-> <<"c", "p", "u">>,
          options |->
                 <<<<<<"l", "o", "a", "d">>, <<"i", "n", "t">>>>,
                   <<<<"u", "p">>, <<"b", "o", "o", "l">>>>>>]>>]
      [] name = "BadTags" ->
        [exists |-> TRUE,
         sections |-> <<
         [name |-> <<"g", "l", "o", "b", "a", "l">>,
          options |->
                 <<<<<<"d", "a", "t", "a", "b", "a", "s", "e">>, <<"i", "n", "f", "l", "u", "x", "d", "b">>>>,
                   <<<<"d", "e", "v", "i", "c", "e", "s">>, <<"d", "1">>>>>>],
         [name |-> <<"i", "n", "f", "l", "u", "x", "d", "b">>,
          options |->
                 <<<<<<"s", "e", "r", "v", "e", "r">>, <<"h">>>>,
                   <<<<"p", "o", "r", "t">>, <<"8">>>>,
                   <<<<"s", "s", "l">>, <<"n", "o">>>>,
                   <<<<"t", "o", "k", "e", "n">>, <<"t">>>>,
                   <<<<"o", "r", "g">>, <<"o">>>>,
                   <<<<"b", "u", "c", "k", "e", "t">>, <<"b">>>>>>],
         [name |-> <<"d", "1">>,
          options |->
                 <<<<<<"m", "e", "a", "s", "u", "r", "e", "m", "e", "n", "t", "s">>, <<"c", "p", "u">>>>,
                   <<<<"t", "a", "g", "s">>, <<"a", "=", "1", " ", "b", "a", "d">>>>>>],
         [name |-> <<"c", "p", "u">>,
          options |->
                 <<<<<<"l", "o", "a", "d">>, <<"i", "n", "t">>>>,
                   <<<<"u", "p">>, <<"b", "o", "o", "l">>>>>>]>>]
      [] name = "InfExtra" ->
        [exists |-> TRUE,
         sections |-> <<
         [name |-> <<"g", "l", "o", "b", "a", "l">>,
          options |->
                 <<<<<<"d", "a", "t", "a", "b", "a", "s", "e">>, <<"i", "n", "f", "l", "u", "x", "d", "b">>>>,
                   <<<<"d", "e", "v", "i", "c", "e", "s">>, <<"d", "1">>>>>>],
         [name |-> <<"i", "n", "f", "l", "u", "x", "d", "b">>,
          options |->
                 <<<<<<"s", "e", "r", "v", "e", "r">>, <<"h">>>>,
                   <<<<"p", "o", "r", "t">>, <<"8">>>>,
                   <<<<"s", "s", "l">>, <<"n", "o">>>>,
                   <<<<"t", "o", "k", "e", "n">>, <<"t">>>>,
                   <<<<"o", "r", "g">>, <<"o">>>>,
                   <<<<"b", "u", "c", "k", "e", "t">>, <<"b">>>>>>],
         [name |-> <<"d", "1">>,
          options |->
                 <<<<<<"m", "e", "a", "s", "u", "r", "e", "m", "e", "n", "t", "s">>, <<"c", "p", "u">>>>,
                   <<<<"r", "a", "t", "e">>, <<"i", "n", "f">>>>>>],
         [name |-> <<"c", "p", "u">>,
          options |->
                 <<<<<<"l", "o", "a", "d">>, <<"i", "n", "t">>>>,
                   <<<<"u", "p">>, <<"b", "o", "o", "l">>>>>>]>>]
      [] name = "NoMeasurementSection" ->
        [exists |-> TRUE,
         sections |-> <<
         [name |-> <<"g", "l", "o", "b", "a", "l">>,
          options |->
                 <<<<<<"d", "a", "t", "a", "b", "a", "s", "e">>, <<"i", "n", "f", "l", "u", "x", "d", "b">>>>,
                   <<<<"d", "e", "v", "i", "c", "e", "s">>, <<"d", "1">>>>>>],
         [name |-> <<"i", "n", "f", "l", "u", "x", "d", "b">>,
          options |->
                 <<<<<<"s", "e", "r", "v", "e", "r">>, <<"h">>>>,
                   <<<<"p", "o", "r", "t">>, <<"8">>>>,
                   <<<<"s", "s", "l">>, <<"n", "o">>>>,
                   <<<<"t", "o", "k", "e", "n">>, <<"t">>>>,
                   <<<<"o", "r", "g">>, <<"o">>>>,
                   <<<<"b", "u", "c", "k", "e", "t">>, <<"b">>>>>>],
         [name |-> <<"d", "1">>,
          options |->
                 <<<<<<"m", "e", "a", "s", "u", "r", "e", "m", "e", "n", "t", "s">>, <<"c", "p", "u">>>>,
                   <<<<"t", "a", "g", "s">>, <<"a", "=", "1">>>>>>]>>]
      [] name = "NoSecondSection" ->
        [exists |-> TRUE,
         sections |-> <<
         [name |-> <<"g", "l", "o", "b", "a", "l">>,
          options |->
                 <<<<<<"d", "a", "t", "a", "b", "a", "s", "e">>, <<"i", "n", "f", "l", "u", "x", "d", "b">>>>,
                   <<<<"d", "e", "v", "i", "c", "e", "s">>, <<"d", "1", " ", "d", "2">>>>>>],
         [name |-> <<"i", "n", "f", "l", "u", "x", "d", "b">>,
          options |->
                 <<<<<<"s", "e", "r", "v", "e", "r">>, <<"h">>>>,
                   <<<<"p", "o", "r", "t">>, <<"8">>>>,
                   <<<<"s", "s", "l">>, <<"n", "o">>>>,
                   <<<<"t", "o", "k", "e", "n">>, <<"t">>>>,
                   <<<<"o", "r", "g">>, <<"o">>>>,
                   <<<<"b", "u", "c", "k", "e", "t">>, <<"b">>>>>>],
         [name |-> <<"d", "1">>,
          options |->
                 <<<<<<"m", "e", "a", "s", "u", "r", "e", "m", "e", "n", "t", "s">>, <<"c", "p", "u">>>>,
                   <<<<"t", "a", "g", "s">>, <<"a", "=", "1">>>>>>],
         [name |-> <<"d", "2">>,
          options |->
                 <<<<<<"m", "e", "a", "s", "u", "r", "e", "m", "e", "n", "t", "s">>, <<"c", "p", "u", " ", "n", "e", "t">>>>>>],
         [name |-> <<"c", "p", "u">>,
          options |->
                 <<<<<<"l", "o", "a", "d">>, <<"i", "n", "t">>>>,
                   <<<<"u", "p">>, <<"b", "o", "o", "l">>>>>>]>>]
      [] name = "BadType" ->
        [exists |-> TRUE,
         sections |-> <<
         [name |-> <<"g", "l", "o", "b", "a", "l">>,
          options |->
                 <<<<<<"d", "a", "t", "a", "b", "a", "s", "e">>, <<"i", "n", "f", "l", "u", "x", "d", "b">>>>,
                   <<<<"d", "e", "v", "i", "c", "e", "s">>, <<"d", "1">>>>>>],
         [name |-> <<"i", "n", "f", "l", "u", "x", "d", "b">>,
          options |->
                 <<<<<<"s", "e", "r", "v", "e", "r">>, <<"h">>>>,
                   <<<<"p", "o", "r", "t">>, <<"8">>>>,
                   <<<<"s", "s", "l">>, <<"n", "o">>>>,
                   <<<<"t", "o", "k", "e", "n">>, <<"t">>>>,
                   <<<<"o", "r", "g">>, <<"o">>>>,
                   <<<<"b", "u", "c", "k", "e", "t">>, <<"b">>>>>>],
         [name |-> <<"d", "1">>,
          options |->
                 <<<<<<"m", "e", "a", "s", "u", "r", "e", "m", "e", "n", "t", "s">>, <<"c", "p", "u">>>>,
                   <<<<"t", "a", "g", "s">>, <<"a", "=", "1">>>>>>],
         [name |-> <<"c", "p", "u">>,
          options |->
                 <<<<<<"l", "o", "a", "d">>, <<"a", "r", "r", "a", "y">>>>>>]>>]
      [] name = "BadTypeNoSection" ->
        [exists |-> TRUE,
         sections |-> <<
         [name |-> <<"g", "l", "o", "b", "a", "l">>,
          options |->
                 <<<<<<"d", "a", "t", "a", "b", "a", "s", "e">>, <<"i", "n", "f", "l", "u", "x", "d", "b">>>>,
                   <<<<"d", "e", "v", "i", "c", "e", "s">>, <<"d", "1">>>>>>],
         [name |-> <<"i", "n", "f", "l", "u", "x", "d", "b">>,
          options |->
                 <<<<<<"s", "e", "r", "v", "e", "r">>, <<"h">>>>,
                   <<<<"p", "o", "r", "t">>, <<"8">>>>,
                   <<<<"s", "s", "l">>, <<"n", "o">>>>,
                   <<<<"t", "o", "k", "e", "n">>, <<"t">>>>,
                   <<<<"o", "r", "g">>, <<"o">>>>,
                   <<<<"b", "u", "c", "k", "e", "t">>, <<"b">>>>>>],
         [name |-> <<"d", "1">>,
          options |->
                 <<<<<<"m", "e", "a", "s", "u", "r", "e", "m", "e", "n", "t", "s">>, <<"c", "p", "u", " ", "n", "e", "t">>>>>>],
         [name |-> <<"c", "p", "u">>,
          options |->
                 <<<<<<"l", "o", "a", "d">>, <<"a", "r", "r", "a", "y">>>>>>]>>]
      [] name = "DuplicateField" ->
        [exists |-> TRUE,
         sections |-> <<
         [name |-> <<"g", "l", "o", "b", "a", "l">>,
          options |->
                 <<<<<<"d", "a", "t", "a", "b", "a", "s", "e">>, <<"i", "n", "f", "l", "u", "x", "d", "b">>>>,
                   <<<<"d", "e", "v", "i", "c", "e", "s">>, <<"d", "1">>>>>>],
         [name |-> <<"i", "n", "f", "l", "u", "x", "d", "b">>,
          options |->
                 <<<<<<"s", "e", "r", "v", "e", "r">>, <<"h">>>>,
                   <<<<"p", "o", "r", "t">>, <<"8">>>>,
                   <<<<"s", "s", "l">>, <<"n", "o">>>>,
                   <<<<"t", "o", "k", "e", "n">>, <<"t">>>>,
                   <<<<"o", "r", "g">>, <<"o">>>>,
                   <<<<"b", "u", "c", "k", "e", "t">>, <<"b">>>>>>],
         [name |-> <<"d", "1">>,
          options |->
                 <<<<<<"m", "e", "a", "s", "u", "r", "e", "m", "e", "n", "t", "s">>, <<"c", "p", "u">>>>,
                   <<<<"t", "a", "g", "s">>, <<"a", "=", "1">>>>>>],
         [name |-> <<"c", "p", "u">>,
          options |->
                 <<<<<<"l", "o", "a", "d">>, <<"i", "n", "t">>>>,
                   <<<<"l", "o", "a", "d">>, <<"f", "l", "o", "a", "t">>>>>>]>>]
      [] name = "OptionField" ->
        [exists |-> TRUE,
         sections |-> <<
         [name |-> <<"g", "l", "o", "b", "a", "l">>,
          options |->
                 <<<<<<"d", "a", "t", "a", "b", "a", "s", "e">>, <<"i", "n", "f", "l", "u", "x", "d", "b">>>>,
                   <<<<"d", "e", "v", "i", "c", "e", "s">>, <<"d", "1">>>>>>],
         [name |-> <<"i", "n", "f", "l", "u", "x", "d", "b">>,
          options |->
                 <<<<<<"s", "e", "r", "v", "e", "r">>, <<"h">>>>,
                   <<<<"p", "o", "r", "t">>, <<"8">>>>,
                   <<<<"s", "s", "l">>, <<"n", "o">>>>,
                   <<<<"t", "o", "k", "e", "n">>, <<"t">>>>,
                   <<<<"o", "r", "g">>, <<"o">>>>,
                   <<<<"b", "u", "c", "k", "e", "t">>, <<"b">>>>>>],
         [name |-> <<"d", "1">>,
          options |->
                 <<<<<<"m", "e", "a", "s", "u", "r", "e", "m", "e", "n", "t", "s">>, <<"c", "p", "u">>>>,
                   <<<<"t", "a", "g", "s">>, <<"a", "=", "1">>>>>>],
         [name |-> <<"c", "p", "u">>,
          options |->
                 <<<<<<"o", "p", "t", "i", "o", "n">>, <<"i", "n", "t">>>>,
                   <<<<"l", "o", "a", "d">>, <<"i", "n", "t">>>>>>]>>]
      [] name = "OptionLast" ->
        [exists |-> TRUE,
         sections |-> <<
         [name |-> <<"g", "l", "o", "b", "a", "l">>,
          options |->
                 <<<<<<"d", "a", "t", "a", "b", "a", "s", "e">>, <<"i", "n", "f", "l", "u", "x", "d", "b">>>>,
                   <<<<"d", "e", "v", "i", "c", "e", "s">>, <<"d", "1">>>>>>],
         [name |-> <<"i", "n", "f", "l", "u", "x", "d", "b">>,
          options |->
                 <<<<<<"s", "e", "r", "v", "e", "r">>, <<"h">>>>,
                   <<<<"p", "o", "r", "t">>, <<"8">>>>,
                   <<<<"s", "s", "l">>, <<"n", "o">>>>,
                   <<<<"t", "o", "k", "e", "n">>, <<"t">>>>,
                   <<<<"o", "r", "g">>, <<"o">>>>,
                   <<<<"b", "u", "c", "k", "e", "t">>, <<"b">>>>>>],
         [name |-> <<"d", "1">>,
          options |->
                 <<<<<<"m", "e", "a", "s", "u", "r", "e", "m", "e", "n", "t", "s">>, <<"c", "p", "u">>>>,
                   <<<<"t", "a", "g", "s">>, <<"a", "=", "1">>>>>>],
         [name |-> <<"c", "p", "u">>,
          options |->
                 <<<<<<"l", "o", "a", "d">>, <<"i", "n", "t">>>>,
                   <<<<"o", "p", "t", "i", "o", "n">>, <<"i", "n", "t">>>>>>]>>]
      [] name = "EmptyMeasurement" ->
        [exists |-> TRUE,
         sections |-> <<
         [name |-> <<"g", "l", "o", "b", "a", "l">>,
          options |->
                 <<<<<<"d", "a", "t", "a", "b", "a", "s", "e">>, <<"i", "n", "f", "l", "u", "x", "d", "b">>>>,
                   <<<<"d", "e", "v", "i", "c", "e", "s">>, <<"d", "1">>>>>>],
         [name |-> <<"i", "n", "f", "l", "u", "x", "d", "b">>,
          options |->
                 <<<<<<"s", "e", "r", "v", "e", "r">>, <<"h">>>>,
                   <<<<"p", "o", "r", "t">>, <<"8">>>>,
                   <<<<"s", "s", "l">>, <<"n", "o">>>>,
                   <<<<"t", "o", "k", "e", "n">>, <<"t">>>>,
                   <<<<"o", "r", "g">>, <<"o">>>>,
                   <<<<"b", "u", "c", "k", "e", "t">>, <<"b">>>>>>],
         [name |-> <<"d", "1">>,
          options |->
                 <<<<<<"m", "e", "a", "s", "u", "r", "e", "m", "e", "n", "t", "s">>, <<"c", "p", "u">>>>,
                   <<<<"t", "a", "g", "s">>, <<"a", "=", "1">>>>>>],
         [name |-> <<"c", "p", "u">>,
          options |->
                 <<>>]>>]
      [] name = "NoBackendSection" ->
        [exists |-> TRUE,
         sections |-> <<
         [name |-> <<"g", "l", "o", "b", "a", "l">>,
          options |->
                 <<<<<<"d", "a", "t", "a", "b", "a", "s", "e">>, <<"i", "n", "f", "l", "u", "x", "d", "b">>>>,
                   <<<<"d", "e", "v", "i", "c", "e", "s">>, <<"d", "1">>>>>>],
         [name |-> <<"d", "1">>,
          options |->
                 <<<<<<"m", "e", "a", "s", "u", "r", "e", "m", "e", "n", "t", "s">>, <<"c", "p", "u">>>>,
                   <<<<"t", "a", "g", "s">>, <<"a", "=", "1">>>>>>],
         [name |-> <<"c", "p", "u">>,
          options |->
                 <<<<<<"l", "o", "a", "d">>, <<"i", "n", "t">>>>,
                   <<<<"u", "p">>, <<"b", "o", "o", "l">>>>>>]>>]

Files ==
    {NoFile,
     File("Good"), File("GoodTwo"), File("NoGlobal"), File("NoDatabaseKey"), File("NoRootKey"), File("Unsupported"),
     File("BadPort"), File("BadSsl"), File("EmptyRoot"), File("NoEntrySection"), File("NoMeasurementsKey"),
     File("BadTags"), File("InfExtra"), File("NoMeasurementSection"), File("NoSecondSection"),
     File("BadType"), File("BadTypeNoSection"), File("DuplicateField"), File("OptionField"),
     File("OptionLast"), File("EmptyMeasurement"), File("NoBackendSection")}

\* The arguments of the GetField and GetTags calls of the model.
GetFieldArgs ==
    {<<StrV(<<"c", "p", "u">>), StrV(<<"l", "o", "a", "d">>)>>,
     <<StrV(<<"c", "p", "u">>), StrV(<<"b", "o", "g", "u", "s">>)>>,
     <<StrV(<<"d", "i", "s", "k">>), StrV(<<"l", "o", "a", "d">>)>>,
     <<NoneV, StrV(<<"l", "o", "a", "d">>)>>}
GetTagsArgs == {StrV(<<"d", "1">>), StrV(<<"d", "x">>), NoneV}

InitConfig ==
    /\ Init
    /\ config = LoadedConfig(FullKeys)
    /\ batchSize = 2

\* The record of a call on cfg that ended as r: the file and the object it
\* found, how it ended, and whether it looked at the file.
ConfigCalled(op, arg, r) ==
    [op |-> op, arg |-> arg, file |-> disk, cfgBefore |-> cfg,
     exc |-> r.exc, msg |-> r.msg, ret |-> r.ret, read |-> r.read]

\* The file at the path is replaced, removed or created.
EditFile ==
    \E file \in Files \ {disk} :
        /\ disk' = file
        /\ last' = [op |-> "EditFile", arg |-> <<>>, file |-> file, cfgBefore |-> cfg,
                    exc |-> "none", msg |-> "", ret |-> NoneV, read |-> FALSE]
        /\ UNCHANGED cfg
        /\ UNCHANGED pipelineVars

ConfigLoad ==
    \E r \in {LoadCall(cfg, disk)} :
        /\ cfg' = r.cfg
        /\ last' = ConfigCalled("Load", <<>>, r)
        /\ UNCHANGED disk
        /\ UNCHANGED pipelineVars

ConfigReload ==
    \E r \in {ReloadCall(cfg, disk)} :
        /\ cfg' = r.cfg
        /\ last' = ConfigCalled("Reload", <<>>, r)
        /\ UNCHANGED disk
        /\ UNCHANGED pipelineVars

ConfigGetDatabase ==
    \E r \in {GetDatabaseCall(cfg, disk)} :
        /\ cfg' = r.cfg
        /\ last' = ConfigCalled("GetDatabase", <<>>, r)
        /\ UNCHANGED disk
        /\ UNCHANGED pipelineVars

ConfigGetField ==
    \E arg \in GetFieldArgs :
        \E r \in {GetFieldCall(cfg, disk, arg[1], arg[2])} :
            /\ cfg' = r.cfg
            /\ last' = ConfigCalled("GetField", arg, r)
            /\ UNCHANGED disk
            /\ UNCHANGED pipelineVars

ConfigGetRoot ==
    \E r \in {GetRootCall(cfg, disk)} :
        /\ cfg' = r.cfg
        /\ last' = ConfigCalled("GetRoot", <<>>, r)
        /\ UNCHANGED disk
        /\ UNCHANGED pipelineVars

ConfigGetTags ==
    \E entity \in GetTagsArgs :
        \E r \in {GetTagsCall(cfg, disk, entity)} :
            /\ cfg' = r.cfg
            /\ last' = ConfigCalled("GetTags", <<entity>>, r)
            /\ UNCHANGED disk
            /\ UNCHANGED pipelineVars

ConfigIsLoaded ==
    /\ last' = [op |-> "IsLoaded", arg |-> <<>>, file |-> disk, cfgBefore |-> cfg,
                exc |-> "none", msg |-> "", ret |-> BoolV(IsLoaded(cfg)), read |-> FALSE]
    /\ UNCHANGED <<disk, cfg>>
    /\ UNCHANGED pipelineVars

NextConfig ==
    \/ EditFile
    \/ ConfigLoad
    \/ ConfigReload
    \/ ConfigGetDatabase
    \/ ConfigGetField
    \/ ConfigGetRoot
    \/ ConfigGetTags
    \/ ConfigIsLoaded

SpecConfig == InitConfig /\ [][NextConfig]_vars

\* ------------------------------------------------------------------------
\* Helpers of the properties of ConvertValue
\* ------------------------------------------------------------------------
\* The last call was ConvertValue(value, hint).
Converted(value, hint) == last.op = "ConvertValue" /\ last.arg = <<value, hint>>

\* The last call was ConvertValue of a text under hint.
ConvertedText(hint) ==
    last.op = "ConvertValue" /\ last.arg[1].k = "str" /\ last.arg[2] = hint

\* How often c occurs in s.
CountOf(s, c) == Cardinality({i \in 1..Len(s) : s[i] = c})

\* ------------------------------------------------------------------------
\* C15: for every supported hint h, ConvertValue(DefaultValue(h), h) raises
\* nothing and returns DefaultValue(h).
\* ------------------------------------------------------------------------
C15_DefaultRoundTrips ==
    \A h \in SupportedHints :
        Converted(DefaultValue(h).v, h) => last.ret = DefaultValue(h)

\* ------------------------------------------------------------------------
\* C16: ConvertValue of a text without a hint never raises: a boolean
\* literal gives the boolean, else a numeric text gives a float when it holds
\* a '.' and an integer when it does not, else the text is returned as it was
\* given.
\* ------------------------------------------------------------------------
C16_NoHintNeverRaises ==
    ConvertedText(NoHint) =>
        LET text == last.arg[1]
            literal == BooleanOf(Lower(text.s))
        IN /\ last.ret.exc = "none"
           /\ literal # NoneV => last.ret.v = literal
           /\ (literal = NoneV /\ PyFloat(text).ok) =>
                  last.ret.v.k = IF Contains(text.s, ".") THEN "float" ELSE "int"
           /\ (literal = NoneV /\ ~PyFloat(text).ok) => last.ret.v = text

\* ------------------------------------------------------------------------
\* C17: ConvertValue(text, hash) splits each token of the text on its first
\* '=': it raises ConversionFailure exactly when some token holds no '=',
\* and otherwise returns the map of all pairs.
\* ------------------------------------------------------------------------
C17_SplitsOnFirstEquals ==
    ConvertedText(HASH_TYPE) =>
        (last.ret.exc = "ConversionFailure"
            <=> \E i \in 1..Len(Split(last.arg[1].s)) :
                    CountOf(Split(last.arg[1].s)[i], "=") = 0)

\* C17, amended: ConvertValue(text, hash) raises ConversionFailure exactly
\* when some token of the text does not hold exactly one '='; otherwise it
\* returns the map from the part before the '=' to the part after it, for
\* every token, the last token of a key winning.
C17_SplitsIntoPairs ==
    ConvertedText(HASH_TYPE) =>
        LET tokens == Split(last.arg[1].s)
            n == Len(tokens)
            eq(i) == CHOOSE j \in 1..Len(tokens[i]) : tokens[i][j] = "="
            key(i) == SubSeq(tokens[i], 1, eq(i) - 1)
            val(i) == SubSeq(tokens[i], eq(i) + 1, Len(tokens[i]))
        IN IF \E i \in 1..n : CountOf(tokens[i], "=") # 1
           THEN last.ret.exc = "ConversionFailure"
           ELSE /\ last.ret.exc = "none"
                /\ last.ret.v.k = "dict"
                /\ DOMAIN last.ret.v.d = {key(i) : i \in 1..n}
                /\ \A i \in 1..n :
                      (\A j \in (i + 1)..n : key(j) # key(i))
                          => last.ret.v.d[key(i)] = StrV(val(i))

C17_Witness ==
    /\ Converted(StrV(<<"k", "=", "a", "=", "b">>), HASH_TYPE)
    /\ last.ret.exc = "ConversionFailure"

\* ------------------------------------------------------------------------
\* Helpers of the properties of the retry and of the order
\* ------------------------------------------------------------------------
\* The points of the iterations of log that the backend took, in the order
\* it was given them.
RECURSIVE Delivered(_)
Delivered(log) ==
    IF log = <<>> THEN <<>>
    ELSE (IF Accepted(Head(log)) THEN Head(log).points ELSE <<>>) \o Delivered(Tail(log))

\* The points of the metrics q.
PointsOfAll(q) == [i \in 1..Len(q) |-> PointOf(q[i])]

\* The last call was a Flush on a pipeline not shut down, and every Write
\* and Flush of the backend in it succeeded.
FlushedWithBackendUp ==
    /\ FlushedLive
    /\ last.exc = "none"
    /\ \A j \in 1..Len(last.flush.log) : Accepted(last.flush.log[j])

\* That Flush was the first one after a failed Flush, with or without calls
\* of the producer between.
RetriedWithBackendUp == FlushedWithBackendUp /\ last.retry

\* A call of the producer left the head of the queue where it was: every
\* place holds a record of the measurement it held, with the fields it had
\* in their order, and no place was removed.
KeptHead ==
    /\ Len(queue) >= Len(last.before)
    /\ \A i \in 1..Len(last.before) :
          /\ queue[i].measurement = last.before[i].measurement
          /\ Len(queue[i].fields) >= Len(last.before[i].fields)
          /\ \A j \in 1..Len(last.before[i].fields) :
                queue[i].fields[j].name = last.before[i].fields[j].name

\* ------------------------------------------------------------------------
\* C13: the first Flush after a failed Flush, with every Write and Flush of
\* the backend succeeding, starts from the queue head the failed Flush
\* stopped at, delivers every record still queued, empties the queue and
\* returns success.
\* ------------------------------------------------------------------------
C13_RetryDeliversAll ==
    /\ RetriedWithBackendUp =>
          /\ Delivered(last.flush.log) = PointsOfAll(last.before)
          /\ queue = <<>>
          /\ last.ret = <<TRUE, Len(last.before)>>
    /\ (RetriedWithBackendUp /\ last.stoppedAt # <<>>) => last.before = last.stoppedAt
    /\ (last.op \in {"Enqueue", "AddField"} /\ last.retry) => KeptHead

\* C13, amended: the first Flush after a failed Flush, with every Write and
\* Flush of the backend succeeding, delivers every record still queued that
\* has a field, in order, removes the records without fields unwritten,
\* empties the queue and returns (True, number of records delivered). It
\* starts from the queue head the failed Flush stopped at: the queue it
\* finds is the one the failed Flush left when no call came between, and
\* every Enqueue and AddField between leaves the head where it was.
C13_RetryDeliversFielded ==
    /\ RetriedWithBackendUp =>
          /\ Delivered(last.flush.log) = PointsOfAll(Fielded(last.before))
          /\ queue = <<>>
          /\ last.ret = <<TRUE, Len(Fielded(last.before))>>
    /\ (RetriedWithBackendUp /\ last.stoppedAt # <<>>) => last.before = last.stoppedAt
    /\ (last.op \in {"Enqueue", "AddField"} /\ last.retry) => KeptHead

\* A Flush failed with one record queued, the producer enqueued two more,
\* and the Flush after that delivered all three.
C13_Witness ==
    /\ RetriedWithBackendUp
    /\ last.stoppedAt = <<>>
    /\ Len(last.before) = 3
    /\ Len(Delivered(last.flush.log)) = 3
    /\ last.ret = <<TRUE, 3>>

\* ------------------------------------------------------------------------
\* C14: the queue is first in, first out. Enqueue leaves every metric of
\* the queue at its place (of a metric that it is given again it writes the
\* clean values, nothing else) and only appends, at the tail, records of
\* the metrics it was given, in the order given; Flush
\* (also inside Reload and Shutdown) only removes a prefix from the head;
\* and the points of the batches the backend took are points of the
\* removed records in queue order.
\* ------------------------------------------------------------------------
\* The index maps from a into b that keep the order.
Rising(a, b) ==
    {f \in [1..Len(a) -> 1..Len(b)] : \A i, j \in 1..Len(a) : i < j => f[i] < f[j]}

C14_FifoOrder ==
    /\ last.op = "Enqueue" =>
          /\ Len(queue) >= Len(last.before)
          /\ \A i \in 1..Len(last.before) : RecordOf(queue[i], last.before[i])
          /\ \E f \in Rising(Appended, Given(last.arg)) :
                \A i \in 1..Len(Appended) : RecordOf(Appended[i], Given(last.arg)[f[i]])
    /\ last.op \in {"Flush", "Reload", "Shutdown"} =>
          \E k \in 0..Len(last.before) :
              /\ queue = SubSeq(last.before, k + 1, Len(last.before))
              /\ \E f \in Rising(Delivered(last.flush.log),
                                  PointsOfAll(SubSeq(last.before, 1, k))) :
                    \A i \in 1..Len(Delivered(last.flush.log)) :
                        Delivered(last.flush.log)[i] = PointOf(last.before[f[i]])

C14_Witness ==
    /\ FlushedLive
    /\ last.retry
    /\ Len(last.before) = 3
    /\ Len(queue) = 1
    /\ Len(Delivered(last.flush.log)) = 2
    /\ Delivered(last.flush.log)[1] # Delivered(last.flush.log)[2]

\* ------------------------------------------------------------------------
\* Helpers of the properties of Config: what a file holds, said without
\* Load
\* ------------------------------------------------------------------------
ConfigErrors == {"ConfigError", "InvalidConfigError"}

\* The last call was Load or Reload, and it looked at the file.
LoadedFromFile == last.op \in {"Load", "Reload"} /\ last.read

\* The file exists and the parser reads it.
Reads(file) == file.exists /\ ParserRead(file.sections).exc = "none"

\* Steps 1 and 2 on the sections p: the global section with both keys and
\* a supported backend; every option of the backend present converts.
GlobalOk(p) ==
    /\ HasSection(p, GLOBAL_SECTION)
    /\ HasOption(p, GLOBAL_SECTION, Text("database"))
    /\ HasOption(p, GLOBAL_SECTION, ROOT)
    /\ Get(p, GLOBAL_SECTION, Text("database")) \in SUPPORTED_DATABASES
BackendOk(p) ==
    \A i \in 1..Len(DatabaseFieldTable) :
        HasOption(p, Get(p, GLOBAL_SECTION, Text("database")), DatabaseFieldTable[i][1]) =>
            ConvertValue(StrV(Get(p, Get(p, GLOBAL_SECTION, Text("database")),
                                  DatabaseFieldTable[i][1])),
                         DatabaseFieldTable[i][2]).exc = "none"

\* Steps 3 and 4: the entries the root names, each with a section that has
\* its measurements, tags that convert and other options that convert.
EntryNames(p) == AppendNew(<<>>, Split(Get(p, GLOBAL_SECTION, ROOT)))
EntryOk(p, entry) ==
    /\ HasSection(p, entry)
    /\ HasOption(p, entry, Text("measurements"))
    /\ HasOption(p, entry, Text("tags")) =>
          ConvertValue(StrV(Get(p, entry, Text("tags"))), HASH_TYPE).exc = "none"
    /\ \A j \in 1..Len(Options(p, entry)) :
          Options(p, entry)[j] \notin {Text("device"), Text("measurements"), Text("tags")} =>
              ConvertValue(StrV(Get(p, entry, Options(p, entry)[j])), NoHint).exc = "none"
EntriesOk(p) ==
    /\ EntryNames(p) # <<>>
    /\ \A i \in 1..Len(EntryNames(p)) : EntryOk(p, EntryNames(p)[i])

\* The measurements the entries name, in the order they are first named.
RECURSIVE ReferencedFrom(_, _, _)
ReferencedFrom(p, entries, order) ==
    IF entries = <<>> THEN order
    ELSE ReferencedFrom(p, Tail(entries),
                        AppendNew(order, Split(Get(p, Head(entries), Text("measurements")))))
Referenced(p) == ReferencedFrom(p, EntryNames(p), <<>>)

\* The measurement has a section that Load takes: every value is a type
\* name, and no option follows one that is named 'option'.
SectionOk(p, measurement) ==
    /\ HasSection(p, measurement)
    /\ \A j \in 1..Len(Options(p, measurement)) :
          /\ Get(p, measurement, Options(p, measurement)[j]) \in OptionTypes
          /\ \A i \in 1..(j - 1) : Options(p, measurement)[i] # Text("option")

\* Some measurement that an entry names has no section, and every step of
\* Load before the lookup of that section passes.
FirstWithoutSection(p) ==
    /\ GlobalOk(p)
    /\ BackendOk(p)
    /\ EntriesOk(p)
    /\ \E k \in 1..Len(Referenced(p)) :
          /\ ~HasSection(p, Referenced(p)[k])
          /\ \A i \in 1..(k - 1) : SectionOk(p, Referenced(p)[i])

\* A value that does not convert to the type of the hint.
Uncoercible(value, hint) ==
    IF hint = BOOL_TYPE THEN BooleanOf(Lower(Strip(value))) = NoneV
    ELSE ConvertValue(StrV(value), hint).exc # "none"

\* Some option of the backend present in p does not convert to its type.
BackendUncoercible(p) ==
    \E i \in 1..Len(DatabaseFieldTable) :
        /\ HasOption(p, Get(p, GLOBAL_SECTION, Text("database")), DatabaseFieldTable[i][1])
        /\ Uncoercible(Get(p, Get(p, GLOBAL_SECTION, Text("database")),
                            DatabaseFieldTable[i][1]),
                        DatabaseFieldTable[i][2])

\* Some section of the file as written, named as a measurement by an entry
\* of it, declares a field twice.
RepeatsField(file) ==
    /\ file.exists
    /\ ~Repeats([i \in 1..Len(file.sections) |-> file.sections[i].name])
    /\ GlobalOk(file.sections)
    /\ \A i \in 1..Len(EntryNames(file.sections)) :
          /\ HasSection(file.sections, EntryNames(file.sections)[i])
          /\ HasOption(file.sections, EntryNames(file.sections)[i], Text("measurements"))
    /\ \E k \in 1..Len(Referenced(file.sections)) :
          /\ HasSection(file.sections, Referenced(file.sections)[k])
          /\ Repeats(Keys(SectionOf(file.sections, Referenced(file.sections)[k])))

\* ------------------------------------------------------------------------
\* C11: Load is all or nothing: when Load or Reload raises, the object is
\* not loaded afterwards and holds nothing of a schema.
\* ------------------------------------------------------------------------
C11_FailedLoadLeavesUnloaded ==
    (last.op \in {"Load", "Reload"} /\ last.exc # "none") =>
        /\ ~IsLoaded(cfg)
        /\ cfg = NewConfig

\* ------------------------------------------------------------------------
\* C12: the object is Unloaded or Loaded, as IsLoaded answers. An accessor
\* called on an Unloaded object runs Load first; on a Loaded object Load
\* and the accessors neither look at the file nor change the object; only
\* Reload leaves Loaded, and it leaves nothing of the schema it found: the
\* object is afterwards what a Load on a new object leaves.
\* ------------------------------------------------------------------------
Accessors == {"GetDatabase", "GetField", "GetRoot", "GetTags"}

\* The last call was an accessor given None: GetField with no measurement
\* or no field, GetTags with no entity.
GivenNone ==
    /\ last.op \in Accessors
    /\ NoneV \in {last.arg[i] : i \in 1..Len(last.arg)}

\* What the claim says of Load, of the accessors on a Loaded object and of
\* Reload.
LoadedUntilReload ==
    /\ (last.op \in Accessors \cup {"Load"} /\ IsLoaded(last.cfgBefore)) =>
          (~last.read /\ cfg = last.cfgBefore)
    /\ (last.op \in Accessors \cup {"Load", "IsLoaded", "EditFile"}
        /\ IsLoaded(last.cfgBefore)) => IsLoaded(cfg)
    /\ last.op = "Reload" =>
          /\ last.read
          /\ cfg = LoadCall(NewConfig, last.file).cfg
          /\ ~last.file.exists => cfg = NewConfig

\* C12 as written: every accessor called on an Unloaded object runs Load
\* first, whatever it is given; the rest as above.
C12_EveryAccessorLoadsFirst ==
    /\ (last.op \in Accessors /\ ~IsLoaded(last.cfgBefore)) => last.read
    /\ LoadedUntilReload

\* C12, amended: as C12, but an accessor given None does not run Load
\* first: GetField(None, field), GetField(measurement, None) and
\* GetTags(None) raise KeyError before they look whether the object is
\* loaded, and leave an Unloaded object Unloaded and the file unread.
C12_LazyLoadOnceUntilReload ==
    /\ (last.op \in Accessors /\ ~GivenNone /\ ~IsLoaded(last.cfgBefore)) => last.read
    /\ GivenNone =>
          /\ last.exc = "KeyError"
          /\ ~last.read
          /\ cfg = last.cfgBefore
    /\ LoadedUntilReload

C12_Witness ==
    /\ last.op = "Reload"
    /\ IsLoaded(last.cfgBefore)
    /\ last.cfgBefore = LoadCall(NewConfig, File("GoodTwo")).cfg
    /\ last.file = File("Good")
    /\ last.exc = "none"
    /\ cfg = LoadCall(NewConfig, File("Good")).cfg

\* ------------------------------------------------------------------------
\* C18: a Load that reads a file in which an entry names a measurement
\* without a section, every step before the lookup of that section passing,
\* raises the configuration error that reports an unknown measurement.
\* ------------------------------------------------------------------------
C18_UnknownMeasurementFails ==
    (/\ LoadedFromFile
     /\ Reads(last.file)
     /\ FirstWithoutSection(ParserRead(last.file.sections).v)) =>
        /\ last.exc = "InvalidConfigError"
        /\ last.msg = "Unknown measurement in config"

C18_Witness ==
    /\ LoadedFromFile
    /\ last.file = File("NoSecondSection")
    /\ FirstWithoutSection(ParserRead(last.file.sections).v)
    /\ last.exc = "InvalidConfigError"
    /\ last.msg = "Unknown measurement in config"

\* ------------------------------------------------------------------------
\* C19: every failure of Load is a configuration error: so is that of a
\* file without global section, and an option of the backend that does not
\* convert to its type makes Load fail with a configuration error.
\* ------------------------------------------------------------------------
C19_LoadFailsWithConfigError ==
    /\ (last.op \in {"Load", "Reload"} /\ last.exc # "none") => last.exc \in ConfigErrors
    /\ (/\ LoadedFromFile
        /\ Reads(last.file)
        /\ ~HasSection(ParserRead(last.file.sections).v, GLOBAL_SECTION)) =>
            last.exc \in ConfigErrors
    /\ (/\ LoadedFromFile
        /\ Reads(last.file)
        /\ GlobalOk(ParserRead(last.file.sections).v)
        /\ BackendUncoercible(ParserRead(last.file.sections).v)) =>
            last.exc = "InvalidConfigError"

\* ------------------------------------------------------------------------
\* C20: a Load that reads a file in which a measurement section declares a
\* field twice fails with a configuration error.
\* ------------------------------------------------------------------------
C20_RepeatedFieldFails ==
    (LoadedFromFile /\ RepeatsField(last.file)) => last.exc \in ConfigErrors

\* ------------------------------------------------------------------------
\* C21: Enqueue of a collection returns normally and handles each record on
\* its own: a record with an unknown measurement or an unknown field is
\* dropped, and every other valid record of the call, before or after it, is
\* appended in the order given.
\* ------------------------------------------------------------------------
\* The metrics of ms that schema c registers, in their order.
RECURSIVE Registered(_, _)
Registered(c, ms) ==
    IF ms = <<>> THEN <<>>
    ELSE (IF Head(ms).k = "metric" /\ ~Unregistered(c, Head(ms))
          THEN <<Head(ms)>> ELSE <<>>)
         \o Registered(c, Tail(ms))

C21_EachRecordIndependent ==
    (last.op = "Enqueue" /\ ~last.wasShutdown /\ last.arg.k = "list") =>
        /\ last.exc = "none"
        /\ Len(Appended) = Len(Registered(last.configBefore, last.arg.l))
        /\ \A i \in 1..Len(Appended) :
              RecordOf(Appended[i], Registered(last.configBefore, last.arg.l)[i])

\* ------------------------------------------------------------------------
\* C22: Reload never raises, and after it the pipeline holds no backend
\* handle, whatever the Flush of Reload did, a Flush that raised a fatal
\* error included.
\* ------------------------------------------------------------------------
C22_ReloadAlwaysClears ==
    last.op = "Reload" => (last.exc = "none" /\ database = NoDatabase)

\* The handle Flush builds from schema c, before its first connection.
Unconnected(c) ==
    [k |-> "influx", config |-> c.dbconfig, client |-> FALSE, writer |-> FALSE]

\* C22, amended: Reload never raises; after it the pipeline holds no backend
\* handle when the Flush of Reload returned, with success or with a
\* transient failure; when that Flush raised a fatal error, closing and
\* clearing are skipped and the pipeline keeps the handle it held when the
\* Flush raised.
C22_ReloadClearsUnlessFlushRaised ==
    last.op = "Reload" =>
        /\ last.exc = "none"
        /\ last.flush.exc = "none" => database = NoDatabase
        /\ last.flush.exc # "none" =>
              /\ last.flush.exc = "RuntimeError"
              /\ database = Unconnected(last.configBefore)

C22_Witness ==
    /\ last.op = "Reload"
    /\ last.flush.exc = "none"
    /\ last.flush.ret[1] = FALSE
    /\ Len(last.flush.log) = 2
    /\ last.flush.log[1].wrote
    /\ database = NoDatabase

\* ------------------------------------------------------------------------
\* C23: after Shutdown the pipeline holds no backend handle, whatever the
\* Flush of Shutdown did.
\* ------------------------------------------------------------------------
C23_ShutdownAlwaysClears == last.op = "Shutdown" => database = NoDatabase

\* ------------------------------------------------------------------------
\* C24: the pipeline holds at most one backend handle. Flush constructs one
\* only when none is held and the queue is not empty, and uses it for every
\* batch and in every later Flush until Reload or Shutdown clears it;
\* Enqueue neither constructs, replaces nor calls the backend.
\* ------------------------------------------------------------------------
C24_OneHandleBuiltOnDemand ==
    [][/\ last'.op = "Enqueue" => database' = database
       /\ last'.op \in {"Flush", "Reload", "Shutdown"} =>
             \A j \in 1..Len(last'.flush.log) :
                 last'.flush.log[j].built =>
                     (j = 1 /\ database = NoDatabase /\ queue # <<>>)
       /\ (last'.op = "Flush" /\ database # NoDatabase) =>
             /\ database' # NoDatabase
             /\ database'.config = database.config
             /\ database.writer => database' = database
       /\ (last'.op = "Flush" /\ last'.flush.log = <<>>) => database' = database]_vars

C24_Witness ==
    /\ last.op = "Flush"
    /\ Len(last.flush.log) = 2
    /\ last.flush.log[1].called
    /\ ~last.flush.log[1].built
    /\ last.flush.log[2].wrote
    /\ database # NoDatabase
    /\ database.writer

\* ------------------------------------------------------------------------
\* C25: after a successful Load the measurements of each entry are a map
\* from each measurement the entry lists to the table of that measurement,
\* field name to type hint, the same as the table of the catalog.
\* ------------------------------------------------------------------------
\* The last call was a Load or Reload that read the file and succeeded; the
\* sections the parser read.
LoadSucceeded == LoadedFromFile /\ last.exc = "none"
Parsed == ParserRead(last.file.sections).v

\* The measurements of entry e of the loaded object, and the catalog.
MeasurementsOf(e) == cfg.config[ROOT][e][Text("measurements")]
CatalogOf(c) == c.config[Text("measurements")]

C25_EntryMapsToHintTables ==
    LoadSucceeded =>
        \A e \in DOMAIN cfg.config[ROOT] :
            /\ MeasurementsOf(e).k = "dict"
            /\ DOMAIN MeasurementsOf(e).d =
                  {Split(Get(Parsed, e, Text("measurements")))[i] :
                      i \in 1..Len(Split(Get(Parsed, e, Text("measurements"))))}
            /\ \A m \in DOMAIN MeasurementsOf(e).d :
                  /\ m \in DOMAIN CatalogOf(cfg)
                  /\ MeasurementsOf(e).d[m] = DictV(CatalogOf(cfg)[m])

\* C25, amended: after a successful Load the measurements of each entry are
\* a map from each measurement the entry lists to the list of the field
\* names that the section of the measurement declares, in the order of the
\* section: the keys of the table of the catalog, when the catalog has the
\* measurement, without the type hints.
C25_EntryMapsToFieldNames ==
    LoadSucceeded =>
        \A e \in DOMAIN cfg.config[ROOT] :
            /\ MeasurementsOf(e).k = "dict"
            /\ DOMAIN MeasurementsOf(e).d =
                  {Split(Get(Parsed, e, Text("measurements")))[i] :
                      i \in 1..Len(Split(Get(Parsed, e, Text("measurements"))))}
            /\ \A m \in DOMAIN MeasurementsOf(e).d :
                  /\ MeasurementsOf(e).d[m] = StrList(Options(Parsed, m))
                  /\ {Options(Parsed, m)[j] : j \in 1..Len(Options(Parsed, m))} =
                        IF m \in DOMAIN CatalogOf(cfg) THEN DOMAIN CatalogOf(cfg)[m] ELSE {}

C25_Witness ==
    /\ LoadSucceeded
    /\ last.file = File("GoodTwo")
    /\ DOMAIN cfg.config[ROOT] = {<<"d", "1">>, <<"d", "2">>}
    /\ DOMAIN MeasurementsOf(<<"d", "2">>).d = {<<"c", "p", "u">>, <<"n", "e", "t">>}
    /\ MeasurementsOf(<<"d", "1">>).d[<<"c", "p", "u">>] =
           StrList(<<<<"l", "o", "a", "d">>, <<"u", "p">>>>)

\* ------------------------------------------------------------------------
\* C26: a Load that reaches the sections of the measurements, one of which
\* gives a field a value that is none of bool, float, int and string, fails
\* with a configuration error. So every hint the catalog holds, and every
\* value GetField returns, is one of the four, and DefaultValue of it, as
\* Enqueue calls it, raises nothing.
\* ------------------------------------------------------------------------
\* Some measurement that an entry names has a section with a value that is
\* no type name, and the steps of Load before the measurements pass.
SomeInvalidType(p) ==
    /\ GlobalOk(p)
    /\ BackendOk(p)
    /\ EntriesOk(p)
    /\ \E k \in 1..Len(Referenced(p)) :
          /\ HasSection(p, Referenced(p)[k])
          /\ \E j \in 1..Len(Options(p, Referenced(p)[k])) :
                Get(p, Referenced(p)[k], Options(p, Referenced(p)[k])[j]) \notin OptionTypes

\* v is the str of one of the four type names, for which DefaultValue
\* answers a value.
PrimitiveHint(v) ==
    \E h \in {BOOL_TYPE, FLOAT_TYPE, INT_TYPE, STRING_TYPE} :
        v = StrV(Text(h)) /\ DefaultValue(h).exc = "none"

C26_HintsArePrimitive ==
    /\ (LoadedFromFile /\ Reads(last.file) /\ SomeInvalidType(Parsed)) =>
          last.exc \in ConfigErrors
    /\ Text("measurements") \in DOMAIN cfg.config =>
          \A m \in DOMAIN CatalogOf(cfg) :
              \A f \in DOMAIN CatalogOf(cfg)[m] : PrimitiveHint(CatalogOf(cfg)[m][f])
    /\ (last.op = "GetField" /\ last.exc = "none") => PrimitiveHint(last.ret)

C26_Witness ==
    /\ LoadedFromFile
    /\ last.file = File("BadType")
    /\ SomeInvalidType(Parsed)
    /\ last.exc = "InvalidConfigError"
    /\ last.msg = "Invalid type"
    /\ DOMAIN CatalogOf(cfg) = {<<"c", "p", "u">>}

\* ------------------------------------------------------------------------
\* C27: a queued record without fields is not encoded and not written, and
\* is removed with its batch: when Flush returns (True, n) the queue is
\* empty, the points handed to the backend are those of the records with a
\* field, and n is the number of those records, which can be less than the
\* number of records removed.
\* ------------------------------------------------------------------------
\* The points of all iterations of log, and the metrics they covered.
RECURSIVE Encoded(_)
Encoded(log) == IF log = <<>> THEN <<>> ELSE Head(log).points \o Encoded(Tail(log))
RECURSIVE Covered(_)
Covered(log) == IF log = <<>> THEN 0 ELSE Head(log).count + Covered(Tail(log))

\* The last call was a Flush that returned (True, n).
FlushSucceeded == FlushedLive /\ last.exc = "none" /\ last.ret[1]

C27_ZeroFieldRemovedUncounted ==
    FlushSucceeded =>
        /\ queue = <<>>
        /\ Covered(last.flush.log) = Len(last.before)
        /\ Encoded(last.flush.log) = PointsOfAll(Fielded(last.before))
        /\ \A i \in 1..Len(Encoded(last.flush.log)) :
              Len(Encoded(last.flush.log)[i].fields) > 0
        /\ last.ret[2] = Len(Fielded(last.before))

C27_Witness ==
    /\ FlushSucceeded
    /\ Len(last.before) = 3
    /\ Len(last.before[2].fields) = 0
    /\ Len(last.flush.log) = 2
    /\ last.ret = <<TRUE, 2>>
    /\ queue = <<>>

\* ------------------------------------------------------------------------
\* The while loop of Flush, one iteration at a time
\* ------------------------------------------------------------------------
\* MetricPipeline(config, batchSize): self.batchSize = int(batchSize) is any
\* integer, none is refused.
LoopBatchSizes == {-1, 0, 1, 2}

\* The record of the pipeline between two calls, and inside the loop of
\* Flush with sent records counted so far. odd is the parity of the number
\* of iterations made: an iteration is a step of the program also when it
\* leaves the pipeline as it found it.
Idle(op, exc, ret) ==
    [op |-> op, pc |-> "idle", sent |-> 0, odd |-> FALSE, exc |-> exc, ret |-> ret]
InLoop(sent, odd) ==
    [op |-> "Flush", pc |-> "loop", sent |-> sent, odd |-> odd, exc |-> "none", ret |-> <<>>]

\* A new pipeline, or one that was shut down before anything was queued.
InitLoop ==
    /\ config \in Schemas
    /\ batchSize \in LoopBatchSizes
    /\ queue = <<>>
    /\ ident = <<>>
    /\ database = NoDatabase
    /\ shutdown \in BOOLEAN
    /\ last = Idle("init", "none", <<>>)
    /\ disk = NoFile
    /\ cfg = NewConfig

LoopEnqueue ==
    /\ last.pc = "idle"
    /\ \E metrics \in EnqueueArgs :
          \E r \in {EnqueueCall(config, queue, shutdown, metrics)} :
              /\ Len(r.queue) <= MaxQueue
              /\ queue' = r.queue
              /\ ident' = [j \in 1..Len(r.queue) |-> IF j <= Len(ident) THEN ident[j] ELSE j]
              /\ last' = Idle("Enqueue", r.exc, <<>>)
    /\ UNCHANGED <<config, batchSize, database, shutdown>>
    /\ UNCHANGED configVars

\* Lines 145-148: Flush() answers (False, 0) once shut down, else enters the
\* loop with sent = 0.
FlushBegin ==
    /\ last.pc = "idle"
    /\ last' = IF shutdown THEN Idle("Flush", "none", <<FALSE, 0>>) ELSE InLoop(0, FALSE)
    /\ UNCHANGED pipelineVars
    /\ UNCHANGED configVars

\* Lines 180-212 in the loop: the call ends as FlushStopped says.
LoopStopped(r) ==
    /\ queue' = r.queue
    /\ ident' = LastOf(ident, Len(r.queue))
    /\ database' = r.db
    /\ last' = Idle("Flush", r.exc, r.ret)

\* Lines 149-223: one iteration on a queue that is not empty, ended by an
\* exception or going on with what Pop left.
FlushIterate ==
    /\ last.pc = "loop"
    /\ queue # <<>>
    /\ \E env \in BackendEnvs :
          \E b \in {FlushBatch(config, batchSize, queue, database, env)} :
              IF b.exc # "none"
              THEN \E cls \in RaisedClasses(b.exc) :
                      LoopStopped(FlushStopped(b, cls, queue, last.sent, <<>>))
              ELSE /\ queue' = Pop(queue, b.entry.count)
                   /\ ident' = LastOf(ident, Len(Pop(queue, b.entry.count)))
                   /\ database' = b.db
                   /\ last' = InLoop(last.sent + Len(b.entry.points), ~last.odd)
    /\ UNCHANGED <<config, batchSize, shutdown>>
    /\ UNCHANGED configVars

\* Lines 149 and 225: the queue is empty, Flush returns (True, sent).
FlushReturn ==
    /\ last.pc = "loop"
    /\ queue = <<>>
    /\ last' = Idle("Flush", "none", <<TRUE, last.sent>>)
    /\ UNCHANGED pipelineVars
    /\ UNCHANGED configVars

NextLoop == LoopEnqueue \/ FlushBegin \/ FlushIterate \/ FlushReturn

\* The loop runs on once entered: its steps are taken when they can be.
SpecLoop ==
    InitLoop /\ [][NextLoop]_vars /\ WF_vars(FlushIterate) /\ WF_vars(FlushReturn)

\* ------------------------------------------------------------------------
\* C28: every call of Flush terminates, whatever the queue holds and
\* whatever batch size the constructor took: an iteration of the loop that
\* neither returns nor raises removes a record from the queue, and a Flush
\* that entered the loop leaves it.
\* ------------------------------------------------------------------------
C28_FlushTerminates ==
    /\ [][(last.pc = "loop" /\ last'.pc = "loop") => Len(queue') < Len(queue)]_vars
    /\ (last.pc = "loop") ~> (last.pc = "idle")

\* ------------------------------------------------------------------------
\* C29: the shutdown flag never goes back to false: no call of Enqueue,
\* Flush, Reload or Shutdown on a pipeline that is shut down clears it. No
\* such call runs an iteration of the flush loop, so the backend is not
\* written to again and the metrics queued at shutdown stay queued, each
\* at its place, whatever the producer does to them.
\* ------------------------------------------------------------------------
C29_ShutdownIsMonotonic ==
    [][shutdown => (/\ shutdown'
                    /\ last'.flush.log = <<>>
                    /\ Len(queue') = Len(queue)
                    /\ ident' = ident)]_vars

C29_Witness ==
    /\ shutdown
    /\ last.wasShutdown
    /\ last.op = "Reload"
    /\ Len(queue) = 2
    /\ queue = last.before

\* ------------------------------------------------------------------------
\* C30: after a successful Load every measurement that an entry lists is in
\* the catalog, also when its section declares no field; so GetField on
\* such a measurement fails only for a field that is unknown.
\* ------------------------------------------------------------------------
C30_ListedMeasurementsInCatalog ==
    LoadSucceeded =>
        \A e \in DOMAIN cfg.config[ROOT] :
            \A m \in DOMAIN MeasurementsOf(e).d : m \in DOMAIN CatalogOf(cfg)

\* ------------------------------------------------------------------------
\* C31: a Load that reads a file which is valid up to its measurement
\* sections, and in which every measurement an entry names has a section
\* whose fields are pairwise distinct and each carry one of the four type
\* names, succeeds whatever the names of the fields are: the duplicate
\* check fails a section only for a field that occurs twice.
\* ------------------------------------------------------------------------
\* Every measurement that an entry names has a section, the names of its
\* fields are pairwise distinct and every value is a type name.
DistinctTypedFields(p) ==
    \A k \in 1..Len(Referenced(p)) :
        /\ HasSection(p, Referenced(p)[k])
        /\ \A i, j \in 1..Len(Options(p, Referenced(p)[k])) :
              i # j => Options(p, Referenced(p)[k])[i] # Options(p, Referenced(p)[k])[j]
        /\ \A j \in 1..Len(Options(p, Referenced(p)[k])) :
              Get(p, Referenced(p)[k], Options(p, Referenced(p)[k])[j]) \in OptionTypes

C31_DistinctFieldsLoad ==
    (/\ LoadedFromFile
     /\ Reads(last.file)
     /\ GlobalOk(Parsed)
     /\ BackendOk(Parsed)
     /\ EntriesOk(Parsed)
     /\ DistinctTypedFields(Parsed)) =>
        /\ last.exc = "none"
        /\ last.msg # "Duplicate measurement definition"

====
